---- MODULE Spec2Model ----
(***************************************************************************)
(* Model of dt-import.py: the safetensors header fixer, the xattr tag      *)
(* store and the per-file pipeline stages that drive them.                 *)
(*                                                                         *)
(* A file is a flat sequence of units: unit 1 is the 8-byte little-endian  *)
(* header length N, units 2..N+1 are the tokens of the compact JSON        *)
(* header, the rest is the tensor payload.  A JSON key is a sequence of    *)
(* key tokens (its string is their concatenation), followed by one value   *)
(* token.  The file system is a directory (path -> inode) plus inodes      *)
(* (bytes and extended attributes), so that rename-over-existing installs  *)
(* the temporary file's inode, with the temporary file's attributes.       *)
(***************************************************************************)
EXTENDS Integers, Sequences, FiniteSets, TLC

\* ---------------------------------------------------------------- bounds
MaxKeys == 3
MaxPayload == 2
ChunkSize == 1
MaxIno == 5
MaxCount == 2

\* ------------------------------------------------------------- constants
HDR_PREFIX == 1
METADATA_TOKEN == 2
FIX_METADATA == 1
FIX_KEYS == 2
\* one binary megabyte, and the header sanity bound, in units of the model
MiB == 12
HEADER_MAX == 20

\* token codes: key tokens are below every value token; NAME_A is the tensor
\* name remainder "a"; descriptors and the metadata block are value tokens
NAME_A == HDR_PREFIX + METADATA_TOKEN
Descriptor(i) == 10 + i
MetadataBlock == Descriptor(10)
PayloadByte(i) == 100 + i

\* an attribute name is <<namespace prefix, rest>> or <<whole name>>
CIVITAI_PFX == "civitai."
XATTR_SHA256 == <<CIVITAI_PFX, "sha256sum">>
XATTR_FIX == <<"kernkraft235.safetensors.fix-v1">>
XATTR_WHERE == <<"com.apple.metadata:kMDItemWhereFroms">>
CIVITAI_FIELDS == <<"nsfwLevel", "baseModel", "triggerWords", "name", "modelType", "air", "modelId">>

\* -------------------------------------------------------------- helpers
Range(s) == {s[i] : i \in DOMAIN s}
Min(a, b) == IF a < b THEN a ELSE b
EmptyFcn == [x \in {} |-> 0]
Put(f, k, v) == [x \in (DOMAIN f) \cup {k} |-> IF x = k THEN v ELSE f[x]]

\* ------------------------------------------------- ordered mapping (dict)
DictKeys(d) == {d[i].k : i \in DOMAIN d}
DictSet(d, key, val) ==
  IF key \in DictKeys(d)
  THEN [i \in DOMAIN d |-> IF d[i].k = key THEN [k |-> key, v |-> val] ELSE d[i]]
  ELSE Append(d, [k |-> key, v |-> val])
DictPop(d, key) == SelectSeq(d, LAMBDA e : e.k # key)
METADATA_KEY == <<METADATA_TOKEN>>
startswith(key, pfx) == Len(key) >= 1 /\ key[1] = pfx
BitSet(flags, bit) == (flags \div bit) % 2 = 1

\* ------------------------------------------------------------ JSON codec
IsValueToken(t) == t >= Descriptor(0)
RECURSIVE json_dumps(_)
json_dumps(d) ==
  IF d = <<>> THEN <<>>
  ELSE Head(d).k \o <<Head(d).v>> \o json_dumps(Tail(d))

RECURSIVE ParseFrom(_, _, _)
ParseFrom(toks, key, acc) ==
  IF toks = <<>> THEN acc
  ELSE IF IsValueToken(Head(toks))
       THEN ParseFrom(Tail(toks), <<>>, DictSet(acc, key, Head(toks)))
       ELSE ParseFrom(Tail(toks), Append(key, Head(toks)), acc)
json_loads(toks) == ParseFrom(toks, <<>>, <<>>)

\* json.loads fails on bytes that are not the tokens of one JSON object:
\* payload bytes, or a key no value follows
json_ok(toks) ==
  IF toks = <<>> THEN TRUE
  ELSE /\ IsValueToken(toks[Len(toks)])
       /\ \A j \in DOMAIN toks : toks[j] < PayloadByte(0)

\* ------------------------------------------------------------ file bytes
FileBytes(header, payload) ==
  <<Len(json_dumps(header))>> \o json_dumps(header) \o payload
ReadAt(bytes, pos, n) == SubSeq(bytes, pos + 1, Min(pos + n, Len(bytes)))
WriteAt(bytes, pos, data) ==
  [i \in 1..(IF pos + Len(data) > Len(bytes) THEN pos + Len(data) ELSE Len(bytes)) |->
     IF i > pos /\ i <= pos + Len(data) THEN data[i - pos]
     ELSE IF i <= Len(bytes) THEN bytes[i] ELSE 0]
HeaderLenOf(bytes) == bytes[1]
HeaderOf(bytes) == json_loads(ReadAt(bytes, 1, HeaderLenOf(bytes)))
PayloadOf(bytes) == SubSeq(bytes, 2 + HeaderLenOf(bytes), Len(bytes))

\* --------------------------------------------------------------- SHA256
sha256_file(bytes) == <<Len(bytes)>> \o bytes

\* ------------------------------------------------------- fixer functions
detect_fixes(header) ==
  (IF METADATA_KEY \in DictKeys(header) THEN FIX_METADATA ELSE 0)
  + (IF \E key \in DictKeys(header) : startswith(key, HDR_PREFIX) THEN FIX_KEYS ELSE 0)

RECURSIVE RenameInto(_, _, _)
RenameInto(items, flags, new_header) ==
  IF items = <<>> THEN new_header
  ELSE LET e == Head(items)
           nk == IF BitSet(flags, FIX_KEYS) /\ startswith(e.k, HDR_PREFIX)
                 THEN Tail(e.k) ELSE e.k
       IN RenameInto(Tail(items), flags, DictSet(new_header, nk, e.v))

fixed_mapping(header, flags) ==
  RenameInto(IF BitSet(flags, FIX_METADATA) THEN DictPop(header, METADATA_KEY) ELSE header,
             flags, <<>>)
build_fixed_header(header, flags) == json_dumps(fixed_mapping(header, flags))

\* ------------------------------------------------------------ fix-state tag
\* variant: any applied fix is recorded as 1 instead of its bitmask
StrOfFlags_any(n) == IF n = 0 THEN "0" ELSE "1"
StrOfFlags(n) == CASE n = 0 -> "0" [] n = 1 -> "1" [] n = 2 -> "2" [] OTHER -> "3"
NoFlags == -1
IntOfStr(raw) == CASE raw = "0" -> 0 [] raw = "1" -> 1 [] raw = "2" -> 2 [] raw = "3" -> 3
                   [] OTHER -> NoFlags
\* variant: a Clean tag (0) is taken as "not yet checked" (truthiness test)
get_fix_xattr_truthy(xattr) ==
  IF XATTR_FIX \in DOMAIN xattr /\ IntOfStr(xattr[XATTR_FIX]) # 0
  THEN IntOfStr(xattr[XATTR_FIX]) ELSE NoFlags
get_fix_xattr(xattr) ==
  IF XATTR_FIX \in DOMAIN xattr THEN IntOfStr(xattr[XATTR_FIX]) ELSE NoFlags
\* variant: the fix-state tag is never stored
mark_fix_dropped(xattr, fix_flags) == xattr
mark_fix(xattr, fix_flags) == Put(xattr, XATTR_FIX, StrOfFlags(fix_flags))
get_sha256_xattr(xattr) == IF XATTR_SHA256 \in DOMAIN xattr THEN xattr[XATTR_SHA256] ELSE <<>>
mark_sha256(xattr, hexdigest) == Put(xattr, XATTR_SHA256, hexdigest)
civitai_xattr_exists(xattr) == <<CIVITAI_PFX, "baseModel">> \in DOMAIN xattr

RECURSIVE MarkFields(_, _, _)
MarkFields(xattr, data, fields) ==
  IF fields = <<>> THEN xattr
  ELSE MarkFields(IF Head(fields) \in DOMAIN data
                  THEN Put(xattr, <<CIVITAI_PFX, Head(fields)>>, data[Head(fields)])
                  ELSE xattr,
                  data, Tail(fields))
mark_civitai(xattr, data) ==
  Put(MarkFields(xattr, data, CIVITAI_FIELDS), <<CIVITAI_PFX, "metadata.version">>, "1")
mark_where_froms(xattr, url) == Put(xattr, XATTR_WHERE, url)

\* provider responses: what the extractors of CIVITAI_FIELD_EXTRACTORS find in
\* them (absent field = not in DOMAIN), and the record's own id, for which
\* there is no extractor
RespFull ==
  [f \in Range(CIVITAI_FIELDS) \cup {"id"} |->
     CASE f = "baseModel" -> "Qwen" [] f = "modelType" -> "LORA" [] f = "modelId" -> "7"
       [] f = "id" -> "9" [] OTHER -> "x"]
RespNoBase == [f \in {"name", "modelType"} |-> IF f = "name" THEN "x" ELSE "LORA"]
Responses == {RespFull, RespNoBase}

\* ------------------------------------------------- version classifier inputs
\* tensor-name tokens: separators, words and block indices, all key tokens
\* (below every value token); a pattern matches a name when its tokens occur
\* contiguously in the name's tokens
None == "None"
Word(w) ==
  CASE w = "." -> 0 - 1 [] w = "_" -> 0 - 2 [] w = "single_blocks" -> 0 - 3
    [] w = "single" -> 0 - 4 [] w = "transformer_blocks" -> 0 - 5 [] w = "linear1" -> 0 - 6
    [] w = "double_stream_modulation" -> 0 - 7 [] w = "layers" -> 0 - 8
    [] w = "feed_forward" -> 0 - 9 [] w = "w3" -> 0 - 10 [] w = "txt_mlp" -> 0 - 11
    [] w = "attn" -> 0 - 12 [] w = "input_blocks" -> 0 - 13 [] w = "attn2" -> 0 - 14
    [] w = "to_k" -> 0 - 15 [] OTHER -> 0 - 16
DOT == Word(".")
US == Word("_")
Num(n) == 0 - (100 + n)
IsNum(t) == t <= Num(0)
NumVal(t) == 0 - t - 100
IsSep(t) == t \in {DOT, US}
Contains(key, pat) ==
  \E j \in 0..(Len(key) - Len(pat)) : SubSeq(key, j + 1, j + Len(pat)) = pat
InKeyStr(keys, pat) == \E key \in keys : Contains(key, pat)

\* the needles the lower-cased modelspec.architecture string of a metadata
\* block contains; a block without the field, or any other value, has none
ArchNeedles(v) ==
  CASE v = Descriptor(11) -> {"flux"} [] v = Descriptor(12) -> {"sdxl"}
    [] v = Descriptor(13) -> {"z_image"} [] v = Descriptor(14) -> {"qwen"}
    [] v = Descriptor(15) -> {"flux", "sdxl"} [] v = Descriptor(16) -> {"zimagetturbo"}
    [] v = Descriptor(17) -> {"sdxl", "qwen"} [] v = Descriptor(18) -> {"other"}
    [] OTHER -> {}
\* the last dimension of a descriptor's declared shape (0: no shape)
ShapeLast(v) ==
  CASE v = Descriptor(8) -> 2048 [] v = Descriptor(9) -> 1280 [] OTHER -> 0

\* ------------------------------------------------- detect_version_from_keys
Landmark(idx) ==
  {<<Word("single_blocks"), DOT, Num(idx), DOT, Word("linear1")>>,
   <<Word("single_blocks"), US, Num(idx), US, Word("linear1")>>,
   <<Word("single"), US, Word("transformer_blocks"), DOT, Num(idx), DOT>>,
   <<Word("single"), US, Word("transformer_blocks"), US, Num(idx), US>>}
HasLandmark(keys, idx) == \E pat \in Landmark(idx) : InKeyStr(keys, pat)

\* tb_pattern.search(k): the index of the leftmost match, -1 without a match
TbMatchAt(key, j) ==
  /\ key[j] = Word("transformer_blocks")
  /\ j = 1 \/ IsSep(key[j - 1])
  /\ j + 3 <= Len(key)
  /\ IsSep(key[j + 1]) /\ IsNum(key[j + 2]) /\ IsSep(key[j + 3])
tb_search(key) ==
  LET hits == {j \in DOMAIN key : TbMatchAt(key, j)}
  IN IF hits = {} THEN 0 - 1
     ELSE NumVal(key[(CHOOSE j \in hits : \A m \in hits : j <= m) + 2])
MaxTbIdx(keys) ==
  LET found == {tb_search(key) : key \in keys} \cup {0 - 1}
  IN CHOOSE n \in found : \A m \in found : m <= n

HeaderArch(header) ==
  IF METADATA_KEY \in DictKeys(header)
  THEN ArchNeedles(header[CHOOSE i \in DOMAIN header : header[i].k = METADATA_KEY].v)
  ELSE {}

\* heuristic 0: the architecture hint; None: fall through
\* variant: the flux test comes last, after the families that return
ArchRule_fluxlast(arch) ==
  IF "sdxl" \in arch THEN "sdxl_base_v0.9"
  ELSE IF "z_image" \in arch \/ "zimagetturbo" \in arch THEN "z_image"
  ELSE IF "qwen" \in arch THEN "qwen_image"
  ELSE None
ArchRule(arch) ==
  IF "flux" \in arch THEN None
  ELSE IF "sdxl" \in arch THEN "sdxl_base_v0.9"
  ELSE IF "z_image" \in arch \/ "zimagetturbo" \in arch THEN "z_image"
  ELSE IF "qwen" \in arch THEN "qwen_image"
  ELSE None
\* heuristic 1: single-block landmarks, largest index first
\* variant: the landmarks tried smallest index first
LandmarkOrder_increasing == <<19, 23, 39>>
LandmarkOrder == <<39, 23, 19>>
LandmarkLabel(idx) ==
  CASE idx = 39 -> "flux2" [] idx = 23 -> "flux2_9b" [] OTHER -> "flux2_4b"
RECURSIVE LandmarkScan(_, _)
LandmarkScan(keys, order) ==
  IF order = <<>> THEN None
  ELSE IF HasLandmark(keys, Head(order)) THEN LandmarkLabel(Head(order))
  ELSE LandmarkScan(keys, Tail(order))
LandmarkRule(keys) == LandmarkScan(keys, LandmarkOrder)
\* heuristic 2: transformer_blocks range counting
BlockRule(keys, arch) ==
  LET max_tb_idx == MaxTbIdx(keys)
      has_double_stream_mod == InKeyStr(keys, <<Word("double_stream_modulation")>>)
      is_flux_family == has_double_stream_mod \/ "flux" \in arch
  IN IF max_tb_idx >= 0 \/ has_double_stream_mod
     THEN IF is_flux_family \/ max_tb_idx >= 19
          THEN (IF max_tb_idx >= 38 THEN "flux2"
                ELSE IF max_tb_idx >= 24 THEN "flux2"
                ELSE IF max_tb_idx >= 20 THEN "flux2_9b"
                ELSE "flux2_4b")
          ELSE IF max_tb_idx >= 59 THEN "qwen_image" ELSE None
     ELSE None
ZImageRule(keys) ==
  IF \/ InKeyStr(keys, <<Word("layers"), DOT, Num(29), DOT, Word("feed_forward"), DOT,
                         Word("w3"), DOT>>)
     \/ InKeyStr(keys, <<Word("layers"), US, Num(29), US, Word("feed_forward"), US,
                         Word("w3")>>)
  THEN "z_image" ELSE None
QwenRule(keys) ==
  IF \/ InKeyStr(keys, <<Word("transformer_blocks"), DOT, Num(59), DOT, Word("txt_mlp"), DOT>>)
     \/ InKeyStr(keys, <<Word("transformer_blocks"), US, Num(59), US, Word("txt_mlp")>>)
     \/ InKeyStr(keys, <<Word("transformer_blocks"), DOT, Num(37), DOT, Word("attn"), DOT>>)
     \/ InKeyStr(keys, <<Word("transformer_blocks"), US, Num(37), US, Word("attn"), US>>)
  THEN "qwen_image" ELSE None
k_flat(key) == [j \in DOMAIN key |-> IF key[j] = DOT THEN US ELSE key[j]]
SdxlName ==
  <<Word("input_blocks"), DOT, Num(4), DOT, Num(1), DOT, Word("transformer_blocks"), DOT,
    Num(0), DOT, Word("attn2"), DOT, Word("to_k")>>
\* variant: the tensor name alone decides, whatever its shape
SdxlRule_anyshape(header) ==
  IF \E i \in DOMAIN header :
       /\ header[i].k # METADATA_KEY
       /\ Contains(k_flat(header[i].k), k_flat(SdxlName)) \/ Contains(header[i].k, SdxlName)
  THEN "sdxl_base_v0.9" ELSE None
SdxlRule(header) ==
  IF \E i \in DOMAIN header :
       /\ header[i].k # METADATA_KEY
       /\ Contains(k_flat(header[i].k), k_flat(SdxlName)) \/ Contains(header[i].k, SdxlName)
       /\ ShapeLast(header[i].v) = 2048
  THEN "sdxl_base_v0.9" ELSE None

\* the rules in program order; the first that returns a label decides
RECURSIVE FirstLabel(_)
FirstLabel(labels) ==
  IF labels = <<>> THEN None
  ELSE IF Head(labels) # None THEN Head(labels) ELSE FirstLabel(Tail(labels))
\* variant: the Qwen landmark is tried before the block-index scan
detect_version_from_keys_qwenfirst(header) ==
  LET keys == DictKeys(header) \ {METADATA_KEY}
      arch == HeaderArch(header)
  IN FirstLabel(<<ArchRule(arch), LandmarkRule(keys), QwenRule(keys), BlockRule(keys, arch),
                  ZImageRule(keys), SdxlRule(header)>>)
detect_version_from_keys(header) ==
  LET keys == DictKeys(header) \ {METADATA_KEY}
      arch == HeaderArch(header)
  IN FirstLabel(<<ArchRule(arch), LandmarkRule(keys), BlockRule(keys, arch),
                  ZImageRule(keys), QwenRule(keys), SdxlRule(header)>>)

\* ----------------------------------------------------------- resolve_version
InTable(base_model) ==
  base_model \in {"ZImageTurbo", "Flux.2 Klein 9B", "Flux.2 Klein 4B", "Pony",
                  "Illustrious", "SDXL 1.0", "Qwen"}
CIVITAI_TO_DT_VERSION(base_model) ==
  CASE base_model = "ZImageTurbo" -> "z_image"
    [] base_model = "Flux.2 Klein 9B" -> "flux2_9b"
    [] base_model = "Flux.2 Klein 4B" -> "flux2_4b"
    [] base_model = "Qwen" -> "qwen_image"
    [] OTHER -> "sdxl_base_v0.9"
\* cli_version "" and base_model "" stand for absent (both are falsy);
\* has_header is FALSE when the header could not be read or is empty
\* variant: the provider label is consulted before the override
resolve_version_labelfirst(base_model, header, has_header, cli_version) ==
  IF base_model # "" /\ InTable(base_model) THEN CIVITAI_TO_DT_VERSION(base_model)
  ELSE IF cli_version # "" THEN cli_version
  ELSE IF has_header /\ header # <<>> THEN detect_version_from_keys(header)
  ELSE None
resolve_version(base_model, header, has_header, cli_version) ==
  IF cli_version # "" THEN cli_version
  ELSE IF base_model # "" /\ InTable(base_model) THEN CIVITAI_TO_DT_VERSION(base_model)
  ELSE IF has_header /\ header # <<>> THEN detect_version_from_keys(header)
  ELSE None

\* ------------------------------------------------------------------ paths
\* a path is the sequence of its dot-separated components
SRC == <<"a", "safetensors">>
SRC2 == <<"b", "safetensors">>
AllInputs == {SRC, SRC2}
with_suffix(p, suffix) == SubSeq(p, 1, Len(p) - 1) \o suffix
\* variant: the rewrite goes to the original path itself
TmpOf_inplace(p) == p
TmpOf(p) == with_suffix(p, <<"tmp", "safetensors">>)
\* the checkpoint the conversion tool writes for an input, in the output directory
OutPath(p) == <<"out", p[1], "ckpt">>
Paths ==
  AllInputs \cup {TmpOf(p) : p \in AllInputs} \cup {OutPath(p) : p \in AllInputs}

\* ------------------------------------------------------------ input space
KeyPool ==
  {METADATA_KEY, <<HDR_PREFIX, METADATA_TOKEN>>, <<NAME_A>>,
   <<HDR_PREFIX, NAME_A>>, <<HDR_PREFIX, HDR_PREFIX, NAME_A>>}
KeySeqs == UNION {[1..n -> KeyPool] : n \in 1..MaxKeys}
InjectiveSeqs == {ks \in KeySeqs : \A i, j \in DOMAIN ks : i # j => ks[i] # ks[j]}
HeaderFor(ks) ==
  [i \in DOMAIN ks |->
     [k |-> ks[i], v |-> IF ks[i] = METADATA_KEY THEN MetadataBlock ELSE Descriptor(i)]]
Headers == {HeaderFor(ks) : ks \in InjectiveSeqs}
Payload == [i \in 1..MaxPayload |-> PayloadByte(i)]

\* input space of the classifier: tensor entries in the naming schemes the
\* heuristics look for, and metadata blocks with and without an architecture
MaxClsKeys == 2
TensorName(words) == words \o <<DOT, Word("lora")>>
ClsPool ==
  {[k |-> TensorName(<<Word("transformer_blocks"), DOT, Num(59), DOT, Word("txt_mlp")>>),
    v |-> Descriptor(1)],
   [k |-> TensorName(<<Word("transformer_blocks"), DOT, Num(37), DOT, Word("attn")>>),
    v |-> Descriptor(1)],
   [k |-> TensorName(<<Word("lora"), US, Word("transformer_blocks"), US, Num(10), US,
                       Word("attn")>>),
    v |-> Descriptor(1)],
   [k |-> TensorName(<<Word("single_blocks"), DOT, Num(39), DOT, Word("linear1")>>),
    v |-> Descriptor(1)],
   [k |-> TensorName(<<Word("single_blocks"), US, Num(23), US, Word("linear1")>>),
    v |-> Descriptor(1)],
   [k |-> TensorName(<<Word("single"), US, Word("transformer_blocks"), DOT, Num(19), DOT,
                       Word("attn")>>),
    v |-> Descriptor(1)],
   [k |-> TensorName(<<Word("transformer_blocks"), DOT, Num(21), DOT, Word("attn")>>),
    v |-> Descriptor(1)],
   [k |-> TensorName(<<Word("transformer_blocks"), US, Num(19), US, Word("attn")>>),
    v |-> Descriptor(1)],
   [k |-> TensorName(<<Word("double_stream_modulation")>>), v |-> Descriptor(1)],
   [k |-> TensorName(<<Word("layers"), DOT, Num(29), DOT, Word("feed_forward"), DOT,
                       Word("w3")>>),
    v |-> Descriptor(1)],
   [k |-> TensorName(SdxlName), v |-> Descriptor(8)],
   [k |-> TensorName(SdxlName), v |-> Descriptor(9)],
   [k |-> TensorName(<<Word("attn")>>), v |-> Descriptor(1)]}
MetaPool == {Descriptor(10 + a) : a \in 0..8}
ClsTensorSeqs ==
  {es \in UNION {[1..n -> ClsPool] : n \in 0..MaxClsKeys} :
     \A i, j \in DOMAIN es : i # j => es[i].k # es[j].k}
ClsHeaders ==
  ClsTensorSeqs \cup {<<[k |-> METADATA_KEY, v |-> m]>> \o es : m \in MetaPool,
                                                               es \in ClsTensorSeqs}
BaseModels == {"", "Qwen", "Flux.2 Klein 9B", "SD 1.5"}
CliVersions == {"", "flux2"}
IdleCls ==
  [pc |-> "idle", header |-> <<>>, base_model |-> "", cli_version |-> "",
   version |-> None, encoded |-> <<>>, decoded |-> <<>>]

\* ------------------------------------------------------------------ modes
ModeFlags == {"skip_fix", "skip_civitai", "skip_convert", "fix_only", "tag_only"}
ModeOf(on) == [f \in ModeFlags |-> f \in on]
Modes == {ModeOf({})} \cup {ModeOf({f}) : f \in ModeFlags}

\* ------------------------------------------------------------------ state
Inst == {1}
Inos == 1..MaxIno
NoHandle == [ino |-> 0, pos |-> 0]
FreeInode == [bytes |-> <<>>, xattr |-> EmptyFcn]
\* bookkeeping of the current fix_header_inplace call: what held at entry and
\* what the call has done since
NoCall == [called |-> FALSE, entryTagged |-> FALSE, entryBytes |-> <<>>,
           entryXattr |-> EmptyFcn, entryTmp |-> FALSE, opens |-> 0,
           tmpOpens |-> 0, replaces |-> 0, tagWrites |-> 0]
\* the arguments main hands to every process_file call of a run
DefaultCfg ==
  [cli_version |-> "", cli_name |-> "", non_interactive |-> TRUE, size_limit_mb |-> 0,
   dry_run |-> FALSE]
\* main before it runs: its file list, the mode flags of its command line,
\* whether the parsed arguments carry the mode attributes, the registry file
IdleMain ==
  [pc |-> "idle", files |-> <<>>, mode |-> ModeOf({}), has_mode_args |-> FALSE, idx |-> 0,
   success |-> 0, skipped |-> 0, saved |-> <<>>, error |-> <<>>]
\* what has happened to an input file over all runs: successful provider
\* fetches and hashes from scratch (counted up to MaxCount), and whether a run
\* has left at its checkpoint
NoHist == [fetches |-> 0, hashes |-> 0, checkpointed |-> FALSE]
Count(n) == IF n < MaxCount THEN n + 1 ELSE n
IdleProc ==
  [pc |-> "idle", path |-> <<>>, mode |-> ModeOf({}), sha256 |-> <<>>, header |-> <<>>,
   flags |-> 0, fixed_bytes |-> <<>>, fin |-> NoHandle, fout |-> NoHandle,
   seen |-> <<>>, call |-> NoCall, log |-> <<>>, ret |-> "none", reason |-> <<>>,
   version |-> None, name |-> <<>>, before |-> {}, cmd_version |-> "unset",
   returncode |-> 0, ckpt_sha256 |-> <<>>, label |-> "", failing |-> {}, copied |-> 0]

VARIABLES dir, inode, proc, orig, nReplace, crashed, cls, cfg, entries, main, hist
vars == <<dir, inode, proc, orig, nReplace, crashed, cls, cfg, entries, main, hist>>

Init ==
  /\ \E h \in Headers :
       /\ inode = [n \in Inos |-> IF n = 1 THEN [bytes |-> FileBytes(h, Payload),
                                                  xattr |-> EmptyFcn]
                                  ELSE FreeInode]
       /\ orig = [p \in AllInputs |-> IF p = SRC THEN FileBytes(h, Payload) ELSE <<>>]
  /\ dir = [p \in Paths |-> IF p = SRC THEN 1 ELSE 0]
  /\ proc = [i \in Inst |-> IdleProc]
  /\ nReplace = [p \in AllInputs |-> 0]
  /\ crashed = FALSE
  /\ cls = IdleCls
  /\ cfg = DefaultCfg
  /\ entries = <<>>
  /\ main = IdleMain
  /\ hist = [p \in {} |-> NoHist]

\* the history of the files a specification follows (the domain of hist)
Hashed(p) == IF p \in DOMAIN hist THEN [hist EXCEPT ![p].hashes = Count(@)] ELSE hist
Fetched(p) == IF p \in DOMAIN hist THEN [hist EXCEPT ![p].fetches = Count(@)] ELSE hist
Checkpointed(p) ==
  IF p \in DOMAIN hist THEN [hist EXCEPT ![p].checkpointed = TRUE] ELSE hist

\* the input files that exist
Inputs == {p \in AllInputs : dir[p] # 0}

\* the file (inode) a path names, and its parts
FileAt(p) == inode[dir[p]]
BytesAt(p) == FileAt(p).bytes
Exists(p) == dir[p] # 0
\* collect_safetensors on the input directory: every file there whose name
\* ends in .safetensors
collect_safetensors == {p \in DOMAIN dir : Exists(p) /\ p[Len(p)] = "safetensors"}
\* getxattr and listxattr find nothing on a path that names no file
XattrAt(p) == IF Exists(p) THEN FileAt(p).xattr ELSE EmptyFcn

\* inodes no directory entry and no open handle refers to are released
Referenced(d, pr) ==
  {d[p] : p \in DOMAIN d} \cup {pr[i].fin.ino : i \in DOMAIN pr}
    \cup {pr[i].fout.ino : i \in DOMAIN pr}
Release(d, ino, pr) == [n \in Inos |-> IF n \in Referenced(d, pr) THEN ino[n] ELSE FreeInode]
SetXattr(p, xattr) == [inode EXCEPT ![dir[p]].xattr = xattr]

Upd(i, rec) == [proc EXCEPT ![i] = rec]
FreeInos(d, pr) == {n \in Inos : n \notin Referenced(d, pr)}
LeastFree(d, pr) == CHOOSE n \in FreeInos(d, pr) : \A m \in FreeInos(d, pr) : n <= m

\* ------------------------------------------------- process_file, stages 1-3
\* process_file returns ret ("True", "False") or lets an exception out ("raise")
Returning(me, ret, reason) == [me EXCEPT !.pc = "return", !.ret = ret, !.reason = reason]

\* process_file is entered for one input file under one pipeline mode
Start(i) ==
  /\ proc[i].pc = "idle"
  /\ \E f \in Inputs, m \in Modes :
       /\ Exists(f)
       /\ proc' = Upd(i, [IdleProc EXCEPT !.pc = "sha", !.path = f, !.mode = m])
  /\ UNCHANGED <<dir, inode, orig, nReplace, crashed, entries, cls, cfg, main, hist>>

\* ensure_sha256: the cached digest if present (and non-empty), else hash and tag
\* variant: the digest is computed on every call
ensure_sha256_always(xattr, bytes) == sha256_file(bytes)
ensure_sha256(xattr, bytes) ==
  IF get_sha256_xattr(xattr) # <<>> THEN get_sha256_xattr(xattr) ELSE sha256_file(bytes)
StageSha(i) ==
  LET me == proc[i]
      existing == get_sha256_xattr(XattrAt(me.path))
      digest == ensure_sha256(XattrAt(me.path), BytesAt(me.path))
  IN /\ me.pc = "sha"
     /\ Exists(me.path)
     /\ inode' = IF existing # <<>> THEN inode
                 ELSE SetXattr(me.path, mark_sha256(XattrAt(me.path), digest))
     /\ proc' = Upd(i, [me EXCEPT !.pc = "civitai", !.sha256 = digest,
                                  !.log = @ \o (IF existing # <<>> THEN <<"sha">>
                                                ELSE <<"sha", "hash">>)])
     /\ hist' = IF existing # <<>> THEN hist ELSE Hashed(me.path)
     /\ UNCHANGED <<dir, orig, nReplace, crashed, entries, cls, cfg, main>>

\* stage 2: skipped, already cached, provider has no record, or record cached
StageCivitaiSkip(i) ==
  LET me == proc[i]
  IN /\ me.pc = "civitai"
     /\ me.mode["skip_civitai"] \/ civitai_xattr_exists(XattrAt(me.path))
     /\ proc' = Upd(i, [me EXCEPT !.pc = "stage3",
                                  !.label = IF civitai_xattr_exists(XattrAt(me.path))
                                            THEN XattrAt(me.path)[<<CIVITAI_PFX, "baseModel">>]
                                            ELSE ""])
     /\ UNCHANGED <<dir, inode, orig, nReplace, crashed, entries, cls, cfg, main, hist>>

StageCivitaiAbsent(i) ==
  LET me == proc[i]
  IN /\ me.pc = "civitai"
     /\ ~me.mode["skip_civitai"] /\ ~civitai_xattr_exists(XattrAt(me.path))
     /\ proc' = Upd(i, [me EXCEPT !.pc = "stage3", !.log = Append(@, "fetch")])
     /\ UNCHANGED <<dir, inode, orig, nReplace, crashed, entries, cls, cfg, main, hist>>

StageCivitaiFetch(i) ==
  LET me == proc[i]
  IN /\ me.pc = "civitai"
     /\ ~me.mode["skip_civitai"] /\ ~civitai_xattr_exists(XattrAt(me.path))
     /\ Exists(me.path)
     /\ \E data \in Responses :
          /\ LET marked == mark_civitai(XattrAt(me.path), data)
             IN inode' = SetXattr(me.path,
                           IF "modelId" \in DOMAIN data
                           THEN mark_where_froms(marked, data["modelId"])
                           ELSE marked)
          /\ proc' = Upd(i, [me EXCEPT !.pc = "stage3", !.log = Append(@, "fetch"),
                                       !.label = IF "baseModel" \in DOMAIN data
                                                 THEN data["baseModel"] ELSE ""])
     /\ hist' = Fetched(me.path)
     /\ UNCHANGED <<dir, orig, nReplace, crashed, entries, cls, cfg, main>>

\* an HTTP error other than 404 leaves fetch_civitai, and process_file, as an
\* exception
StageCivitaiRaise(i) ==
  LET me == proc[i]
  IN /\ me.pc = "civitai"
     /\ ~me.mode["skip_civitai"] /\ ~civitai_xattr_exists(XattrAt(me.path))
     /\ proc' = Upd(i, Returning([me EXCEPT !.log = Append(@, "fetch")], "raise",
                                 <<"HTTPError">>))
     /\ UNCHANGED <<dir, inode, orig, nReplace, crashed, entries, cls, cfg, main, hist>>

\* stage 3 is not entered under skip_fix or tag_only
Stage3Skip(i) ==
  LET me == proc[i]
  IN /\ me.pc = "stage3"
     /\ me.mode["skip_fix"] \/ me.mode["tag_only"]
     /\ proc' = Upd(i, [me EXCEPT !.pc = "early_exit"])
     /\ UNCHANGED <<dir, inode, orig, nReplace, crashed, entries, cls, cfg, main, hist>>

\* ---------------------------------------------------- fix_header_inplace
\* the statements that follow the temporary file's with-block, in program order
\* variant: the tags are written before the replace
FixSteps_tagfirst == <<"mark_sha", "mark_fix", "replace">>
\* variant: after the replace the fix-state tag is written before the hash tag
FixSteps_fixfirst == <<"replace", "mark_fix", "mark_sha">>
FixSteps == <<"replace", "mark_sha", "mark_fix">>
StepAfter(pc) ==
  LET n == CHOOSE j \in DOMAIN FixSteps : FixSteps[j] = pc
  IN IF n = Len(FixSteps) THEN "early_exit" ELSE FixSteps[n + 1]

EntryCall(p) ==
  [NoCall EXCEPT !.called = TRUE,
                 !.entryTagged = (XATTR_FIX \in DOMAIN XattrAt(p)
                                  /\ XattrAt(p)[XATTR_FIX] \in {"0", "1", "2", "3"}),
                 !.entryBytes = BytesAt(p),
                 !.entryXattr = XattrAt(p),
                 !.entryTmp = Exists(TmpOf(p))]

\* the length prefix and the header can be read and parsed: the file holds
\* the prefix and all the header bytes it announces, and they are JSON
FixReadOk(bytes) ==
  IF Len(bytes) < 1 THEN FALSE
  ELSE IF Len(bytes) < 1 + bytes[1] THEN FALSE
  ELSE json_ok(ReadAt(bytes, 1, bytes[1]))

\* fix-state tag already set: return at once
FixAlready(i) ==
  LET me == proc[i]
  IN /\ me.pc = "stage3"
     /\ ~(me.mode["skip_fix"] \/ me.mode["tag_only"])
     /\ get_fix_xattr(XattrAt(me.path)) # NoFlags
     /\ proc' = Upd(i, [me EXCEPT !.pc = "early_exit", !.call = EntryCall(me.path),
                                  !.log = Append(@, "fix")])
     /\ UNCHANGED <<dir, inode, orig, nReplace, crashed, entries, cls, cfg, main, hist>>

\* open the file, read the length prefix and the header, detect; clean: tag 0
FixOpenClean(i) ==
  LET me == proc[i]
      bytes == BytesAt(me.path)
      header_len == ReadAt(bytes, 0, 1)[1]
      header == json_loads(ReadAt(bytes, 1, header_len))
  IN /\ me.pc = "stage3"
     /\ ~(me.mode["skip_fix"] \/ me.mode["tag_only"])
     /\ get_fix_xattr(XattrAt(me.path)) = NoFlags
     /\ Exists(me.path)
     /\ FixReadOk(bytes)
     /\ detect_fixes(header) = 0
     /\ inode' = SetXattr(me.path, mark_fix(XattrAt(me.path), 0))
     /\ proc' = Upd(i, [me EXCEPT !.pc = "early_exit", !.header = header,
                                  !.log = Append(@, "fix"),
                                  !.call = [EntryCall(me.path) EXCEPT !.opens = 1,
                                                                      !.tagWrites = 1]])
     /\ UNCHANGED <<dir, orig, nReplace, crashed, entries, cls, cfg, main, hist>>

\* open, read, detect a needed fix, build the fixed header; fin stays open
FixOpenDirty(i) ==
  LET me == proc[i]
      bytes == BytesAt(me.path)
      header_len == ReadAt(bytes, 0, 1)[1]
      header == json_loads(ReadAt(bytes, 1, header_len))
      flags == detect_fixes(header)
  IN /\ me.pc = "stage3"
     /\ ~(me.mode["skip_fix"] \/ me.mode["tag_only"])
     /\ get_fix_xattr(XattrAt(me.path)) = NoFlags
     /\ Exists(me.path)
     /\ FixReadOk(bytes)
     /\ flags # 0
     /\ proc' = Upd(i, [me EXCEPT !.pc = "tmp_open", !.header = header, !.flags = flags,
                                  !.fixed_bytes = build_fixed_header(header, flags),
                                  !.fin = [ino |-> dir[me.path], pos |-> 1 + header_len],
                                  !.log = Append(@, "fix"),
                                  !.call = [EntryCall(me.path) EXCEPT !.opens = 1]])
     /\ UNCHANGED <<dir, inode, orig, nReplace, crashed, entries, cls, cfg, main, hist>>

\* struct.unpack or json.loads of the bytes read fails: the exception leaves
\* fix_header_inplace and process_file; the file was opened for reading only
FixOpenRaise(i) ==
  LET me == proc[i]
      bytes == BytesAt(me.path)
  IN /\ me.pc = "stage3"
     /\ ~(me.mode["skip_fix"] \/ me.mode["tag_only"])
     /\ get_fix_xattr(XattrAt(me.path)) = NoFlags
     /\ Exists(me.path)
     /\ ~FixReadOk(bytes)
     /\ proc' = Upd(i, Returning([me EXCEPT !.log = Append(@, "fix"),
                                            !.call = [EntryCall(me.path) EXCEPT !.opens = 1]],
                                 "raise", <<"JSONDecodeError">>))
     /\ UNCHANGED <<dir, inode, orig, nReplace, crashed, entries, cls, cfg, main, hist>>

\* tmp.open("wb"): create the temporary file, or truncate the one a crash left
TmpOpen(i) ==
  LET me == proc[i]
      tmp == TmpOf(me.path)
      ino == IF Exists(tmp) THEN dir[tmp] ELSE LeastFree(dir, proc)
  IN /\ me.pc = "tmp_open"
     /\ Exists(tmp) \/ FreeInos(dir, proc) # {}
     /\ dir' = [dir EXCEPT ![tmp] = ino]
     /\ inode' = [inode EXCEPT ![ino].bytes = <<>>]
     /\ proc' = Upd(i, [me EXCEPT !.pc = "write_len", !.fout = [ino |-> ino, pos |-> 0],
                                  !.call.tmpOpens = @ + 1])
     /\ UNCHANGED <<orig, nReplace, crashed, entries, cls, cfg, main, hist>>

FoutWrite(me, data) ==
  [inode EXCEPT ![me.fout.ino].bytes = WriteAt(@, me.fout.pos, data)]

WriteLen(i) ==
  LET me == proc[i]
      data == <<Len(me.fixed_bytes)>>
  IN /\ me.pc = "write_len"
     /\ inode' = FoutWrite(me, data)
     /\ proc' = Upd(i, [me EXCEPT !.pc = "write_hdr", !.fout.pos = @ + Len(data)])
     /\ UNCHANGED <<dir, orig, nReplace, crashed, entries, cls, cfg, main, hist>>

WriteHeader(i) ==
  LET me == proc[i]
  IN /\ me.pc = "write_hdr"
     /\ inode' = FoutWrite(me, me.fixed_bytes)
     /\ proc' = Upd(i, [me EXCEPT !.pc = "copy", !.fout.pos = @ + Len(me.fixed_bytes)])
     /\ UNCHANGED <<dir, orig, nReplace, crashed, entries, cls, cfg, main, hist>>

\* one iteration of the payload copy loop with a non-empty chunk
CopyChunk(i) ==
  LET me == proc[i]
      chunk == ReadAt(inode[me.fin.ino].bytes, me.fin.pos, ChunkSize)
  IN /\ me.pc = "copy"
     /\ chunk # <<>>
     /\ inode' = FoutWrite(me, chunk)
     /\ proc' = Upd(i, [me EXCEPT !.fin.pos = @ + Len(chunk), !.fout.pos = @ + Len(chunk)])
     /\ UNCHANGED <<dir, orig, nReplace, crashed, entries, cls, cfg, main, hist>>

\* empty chunk: leave the loop, close fout and fin
CopyDone(i) ==
  LET me == proc[i]
      chunk == ReadAt(inode[me.fin.ino].bytes, me.fin.pos, ChunkSize)
      pr == Upd(i, [me EXCEPT !.pc = FixSteps[1], !.fin = NoHandle, !.fout = NoHandle])
  IN /\ me.pc = "copy"
     /\ chunk = <<>>
     /\ proc' = pr
     /\ inode' = Release(dir, inode, pr)
     /\ UNCHANGED <<dir, orig, nReplace, crashed, entries, cls, cfg, main, hist>>

\* tmp.replace(p): the path now names the temporary file's inode
Replace(i) ==
  LET me == proc[i]
      tmp == TmpOf(me.path)
      d == [dir EXCEPT ![me.path] = dir[tmp], ![tmp] = 0]
  IN /\ me.pc = "replace"
     /\ Exists(tmp)
     /\ dir' = d
     /\ inode' = Release(d, inode, proc)
     /\ proc' = Upd(i, [me EXCEPT !.pc = StepAfter("replace"), !.call.replaces = @ + 1,
                                  !.log = Append(@, "rewrite")])
     /\ nReplace' = [nReplace EXCEPT ![me.path] = @ + 1]
     /\ UNCHANGED <<orig, crashed, entries, cls, cfg, main, hist>>

MarkSha(i) ==
  LET me == proc[i]
  IN /\ me.pc = "mark_sha"
     /\ Exists(me.path)
     /\ inode' = SetXattr(me.path, mark_sha256(XattrAt(me.path), me.sha256))
     /\ proc' = Upd(i, [me EXCEPT !.pc = StepAfter("mark_sha"), !.call.tagWrites = @ + 1])
     /\ UNCHANGED <<dir, orig, nReplace, crashed, entries, cls, cfg, main, hist>>

MarkFix(i) ==
  LET me == proc[i]
  IN /\ me.pc = "mark_fix"
     /\ Exists(me.path)
     /\ inode' = SetXattr(me.path, mark_fix(XattrAt(me.path), me.flags))
     /\ proc' = Upd(i, [me EXCEPT !.pc = StepAfter("mark_fix"), !.call.tagWrites = @ + 1])
     /\ UNCHANGED <<dir, orig, nReplace, crashed, entries, cls, cfg, main, hist>>

\* ------------------------------------------------ process_file, after stage 3
\* variant: a run with a checkpoint goes on with stage 5
EarlyExit_continue(i) ==
  LET me == proc[i]
  IN /\ me.pc = "early_exit"
     /\ me.mode["tag_only"] \/ me.mode["fix_only"] \/ me.mode["skip_convert"]
     /\ proc' = Upd(i, [me EXCEPT !.pc = "read"])
     /\ hist' = Checkpointed(me.path)
     /\ UNCHANGED <<dir, inode, orig, nReplace, crashed, entries, cls, cfg, main>>
\* tag_only, fix_only and skip_convert return here
EarlyExit(i) ==
  LET me == proc[i]
  IN /\ me.pc = "early_exit"
     /\ me.mode["tag_only"] \/ me.mode["fix_only"] \/ me.mode["skip_convert"]
     /\ proc' = Upd(i, Returning(me, "True", <<>>))
     /\ hist' = Checkpointed(me.path)
     /\ UNCHANGED <<dir, inode, orig, nReplace, crashed, entries, cls, cfg, main>>

\* ------------------------------------------------------ stage 4: preflight
get_civitai_xattr(xattr, field) ==
  IF <<CIVITAI_PFX, field>> \in DOMAIN xattr THEN xattr[<<CIVITAI_PFX, field>>] ELSE ""
\* the name of the first entry with this output file or this source hash
\* (<<>>: no such entry; sha256 <<>>: no hash given)
EntryCivitai(entry, field) ==
  IF field \in DOMAIN entry.civitai THEN entry.civitai[field] ELSE <<>>
IsDupOf(entry, ckpt_filename, sha256) ==
  \/ entry.file = ckpt_filename
  \/ sha256 # <<>> /\ EntryCivitai(entry, "sha256") = sha256
\* variant: only the output file name is compared
is_duplicate_fileonly(ents, ckpt_filename, sha256) ==
  LET hits == {j \in DOMAIN ents : ents[j].file = ckpt_filename}
  IN IF hits = {} THEN <<>>
     ELSE ents[CHOOSE j \in hits : \A m \in hits : j <= m].name
is_duplicate(ents, ckpt_filename, sha256) ==
  LET hits == {j \in DOMAIN ents : IsDupOf(ents[j], ckpt_filename, sha256)}
  IN IF hits = {} THEN <<>>
     ELSE ents[CHOOSE j \in hits : \A m \in hits : j <= m].name
IdDupOf(ents, civitai_id) ==
  {j \in DOMAIN ents : EntryCivitai(ents[j], "id") = <<civitai_id>>}
upper(model_type) == IF model_type \in {"LORA", "lora", "LoRA"} THEN "LORA" ELSE model_type
preflight(xattr, bytes, ents, size_limit_mb) ==
  LET file_size == Len(bytes)
      limit_bytes == size_limit_mb * MiB
      model_type == get_civitai_xattr(xattr, "modelType")
      sha256 == get_sha256_xattr(xattr)
      existing == is_duplicate(ents, <<>>, sha256)
      civitai_id == get_civitai_xattr(xattr, "id")
      idhits == IdDupOf(ents, civitai_id)
  IN IF size_limit_mb > 0 /\ file_size > limit_bytes
     THEN [ok |-> FALSE, reason |-> <<"file too large">>]
     ELSE IF model_type # "" /\ upper(model_type) # "LORA"
     THEN [ok |-> FALSE, reason |-> <<"not a LoRA">>]
     ELSE IF sha256 # <<>> /\ existing # <<>>
     THEN [ok |-> FALSE, reason |-> <<"already imported as">> \o existing
                                     \o <<"(SHA256 match)">>]
     ELSE IF civitai_id # "" /\ idhits # {}
     THEN [ok |-> FALSE,
           reason |-> <<"already imported as">>
                      \o ents[CHOOSE j \in idhits : \A m \in idhits : j <= m].name
                      \o <<"(CivitAI id match)">>]
     ELSE [ok |-> TRUE, reason |-> <<>>]

Preflight(i) ==
  LET me == proc[i]
      pf == preflight(XattrAt(me.path), BytesAt(me.path), entries, cfg.size_limit_mb)
  IN /\ me.pc = "early_exit"
     /\ ~(me.mode["tag_only"] \/ me.mode["fix_only"] \/ me.mode["skip_convert"])
     /\ pf.ok
     /\ proc' = Upd(i, [me EXCEPT !.pc = "read", !.log = Append(@, "preflight")])
     /\ UNCHANGED <<dir, inode, orig, nReplace, crashed, entries, cls, cfg, main, hist>>

PreflightReject(i) ==
  LET me == proc[i]
      pf == preflight(XattrAt(me.path), BytesAt(me.path), entries, cfg.size_limit_mb)
  IN /\ me.pc = "early_exit"
     /\ ~(me.mode["tag_only"] \/ me.mode["fix_only"] \/ me.mode["skip_convert"])
     /\ ~pf.ok
     /\ proc' = Upd(i, Returning([me EXCEPT !.log = Append(@, "preflight")],
                                 "False", pf.reason))
     /\ UNCHANGED <<dir, inode, orig, nReplace, crashed, entries, cls, cfg, main, hist>>

\* --------------------------------------------- stage 5: version resolution
\* read_safetensors_header reads the file the path names now; <<>> stands
\* for None (short file, length above the sanity bound, or any exception)
\* variant: the header is read from the start of the file
read_safetensors_header_nolen(bytes) ==
  IF Len(bytes) < 1 THEN <<>>
  ELSE IF HeaderLenOf(bytes) > HEADER_MAX THEN <<>>
  ELSE IF ~json_ok(ReadAt(bytes, 0, HeaderLenOf(bytes))) THEN <<>>
  ELSE json_loads(ReadAt(bytes, 0, HeaderLenOf(bytes)))
read_safetensors_header(bytes) ==
  IF Len(bytes) < 1 THEN <<>>
  ELSE IF HeaderLenOf(bytes) > HEADER_MAX THEN <<>>
  ELSE IF ~json_ok(ReadAt(bytes, 1, HeaderLenOf(bytes))) THEN <<>>
  ELSE json_loads(ReadAt(bytes, 1, HeaderLenOf(bytes)))
StageRead(i) ==
  LET me == proc[i]
  IN /\ me.pc = "read"
     /\ proc' = Upd(i, [me EXCEPT !.pc = "resolve",
                                  !.seen = read_safetensors_header(BytesAt(me.path)),
                                  !.log = Append(@, "version")])
     /\ UNCHANGED <<dir, inode, orig, nReplace, crashed, entries, cls, cfg, main, hist>>

\* derive_name: --name, else the provider's name tag, else the file's stem,
\* then the base model's prefix (the clean-up rules leave these names as they are)
CIVITAI_NAME_PREFIX(base_model) ==
  CASE base_model = "Pony" -> <<"PD-">> [] base_model = "Illustrious" -> <<"IL-">>
    [] base_model = "SDXL 1.0" -> <<"XL-">> [] OTHER -> <<>>
derive_name(path, xattr, cli_name, civitai_base_model) ==
  LET raw_name == IF cli_name # "" THEN cli_name
                  ELSE IF get_civitai_xattr(xattr, "name") # ""
                       THEN get_civitai_xattr(xattr, "name")
                       ELSE path[1]
  IN CIVITAI_NAME_PREFIX(civitai_base_model) \o <<raw_name>>

\* collect_civitai_data: the slim provider fields and the source hash tag
collect_civitai_data(xattr) ==
  LET fields == {f \in {"nsfwLevel", "baseModel", "name", "air"} :
                   <<CIVITAI_PFX, f>> \in DOMAIN xattr}
      keys == fields \cup (IF get_sha256_xattr(xattr) # <<>> THEN {"sha256"} ELSE {})
  IN [f \in keys |-> IF f = "sha256" THEN get_sha256_xattr(xattr)
                     ELSE xattr[<<CIVITAI_PFX, f>>]]

OutFiles == {OutPath(p) : p \in AllInputs}
glob_ckpt == {q \in OutFiles : Exists(q)}

\* resolve the version and the name; a dry run reports them and returns
StageResolve(i) ==
  LET me == proc[i]
      x == XattrAt(me.path)
      version == resolve_version(get_civitai_xattr(x, "baseModel"), me.seen,
                                 me.seen # <<>>, cfg.cli_version)
      name == derive_name(me.path, x, cfg.cli_name, get_civitai_xattr(x, "baseModel"))
      next == [me EXCEPT !.version = version, !.name = name]
  IN /\ me.pc = "resolve"
     /\ proc' = Upd(i, IF cfg.dry_run THEN Returning(next, "True", <<>>)
                       ELSE [next EXCEPT !.pc = "convert", !.before = glob_ckpt])
     /\ UNCHANGED <<dir, inode, orig, nReplace, crashed, entries, cls, cfg, main, hist>>

\* ------------------------------------------------------ stage 6: conversion
\* the conversion tool is an external program: it exits with 0 and has written
\* the checkpoint, or exits with 1, having written a checkpoint or not
Converted(bytes) == <<Len(bytes)>> \o PayloadOf(bytes)
ToolWrites(out, bytes) ==
  LET ino == IF Exists(out) THEN dir[out] ELSE LeastFree(dir, proc)
  IN /\ Exists(out) \/ FreeInos(dir, proc) # {}
     /\ dir' = [dir EXCEPT ![out] = ino]
     /\ inode' = [inode EXCEPT ![ino].bytes = Converted(bytes)]
ToolRun(me, returncode, wrote) ==
  /\ returncode = 0 => wrote
  /\ IF wrote THEN ToolWrites(OutPath(me.path), BytesAt(me.path))
     ELSE UNCHANGED <<dir, inode>>

\* subprocess.run of the first command line; --version is passed when known
Convert(i) ==
  LET me == proc[i]
  IN /\ me.pc = "convert"
     /\ \E returncode \in {0, 1}, wrote \in BOOLEAN :
          /\ ToolRun(me, returncode, wrote)
          /\ proc' = Upd(i, [me EXCEPT !.pc = IF returncode # 0 /\ me.version = None
                                              THEN "prompt" ELSE "find",
                                       !.returncode = returncode,
                                       !.cmd_version = me.version,
                                       !.log = Append(@, "convert")])
     /\ UNCHANGED <<orig, nReplace, crashed, entries, cls, cfg, main, hist>>

\* prompt_version after a failure without a version: None when non-interactive
\* or when the user skips
PromptNone(i) ==
  LET me == proc[i]
  IN /\ me.pc = "prompt"
     /\ proc' = Upd(i, Returning(me, "False", <<"no version selected">>))
     /\ UNCHANGED <<dir, inode, orig, nReplace, crashed, entries, cls, cfg, main, hist>>

PromptChoice(i) ==
  LET me == proc[i]
  IN /\ me.pc = "prompt"
     /\ ~cfg.non_interactive
     /\ \E choice \in {"z_image", "v1"} :
          proc' = Upd(i, [me EXCEPT !.pc = "retry", !.version = choice])
     /\ UNCHANGED <<dir, inode, orig, nReplace, crashed, entries, cls, cfg, main, hist>>

\* the retry with the chosen version; a second failure returns False
ConvertRetry(i) ==
  LET me == proc[i]
  IN /\ me.pc = "retry"
     /\ \E returncode \in {0, 1}, wrote \in BOOLEAN :
          /\ ToolRun(me, returncode, wrote)
          /\ proc' = Upd(i, IF returncode # 0
                            THEN Returning([me EXCEPT !.returncode = returncode,
                                                      !.cmd_version = me.version,
                                                      !.log = Append(@, "convert")],
                                           "False", <<"LoRAConverter still failed">>)
                            ELSE [me EXCEPT !.pc = "find", !.returncode = returncode,
                                            !.cmd_version = me.version,
                                            !.log = Append(@, "convert")])
     /\ UNCHANGED <<orig, nReplace, crashed, entries, cls, cfg, main, hist>>

\* the checkpoints that appeared since the snapshot; none: return False
FindNone(i) ==
  LET me == proc[i]
  IN /\ me.pc = "find"
     /\ glob_ckpt \ me.before = {}
     /\ proc' = Upd(i, Returning(me, "False", <<"no new .ckpt file found">>))
     /\ UNCHANGED <<dir, inode, orig, nReplace, crashed, entries, cls, cfg, main, hist>>

\* the new checkpoint (its name needs no clean-up) is hashed
FindNew(i) ==
  LET me == proc[i]
      ckpt_path == OutPath(me.path)
  IN /\ me.pc = "find"
     /\ ckpt_path \in glob_ckpt \ me.before
     /\ proc' = Upd(i, [me EXCEPT !.pc = "register",
                                  !.ckpt_sha256 = sha256_file(BytesAt(ckpt_path)),
                                  !.log = Append(@, "rehash")])
     /\ UNCHANGED <<dir, inode, orig, nReplace, crashed, entries, cls, cfg, main, hist>>

\* ------------------------------------------------------- stage 7: register
NewEntry(me, xattr) ==
  [sha256 |-> me.ckpt_sha256, name |-> me.name,
   version |-> IF me.version = None THEN "" ELSE me.version,
   file |-> OutPath(me.path), civitai |-> collect_civitai_data(xattr)]
StageRegister(i) ==
  LET me == proc[i]
      existing == is_duplicate(entries, OutPath(me.path), <<>>)
  IN /\ me.pc = "register"
     /\ entries' = IF existing # <<>> THEN entries
                   ELSE Append(entries, NewEntry(me, XattrAt(me.path)))
     /\ proc' = Upd(i, [me EXCEPT !.pc = "propagate", !.log = Append(@, "register")])
     /\ UNCHANGED <<dir, inode, orig, nReplace, crashed, cls, cfg, main, hist>>

\* ------------------------------------------------------ stage 8: propagate
\* failing: the names for which _xattr_set on dst raises OSError; the result
\* is the tags dst has afterwards and the count returned
\* variant: every tag of src is copied
propagate_xattrs_all(src, dst, failing) ==
  LET names == DOMAIN src
      written == names \ failing
  IN [xattr |-> [n \in DOMAIN dst \cup written |-> IF n \in written THEN src[n] ELSE dst[n]],
      copied |-> Cardinality(written)]
propagate_xattrs(src, dst, failing) ==
  LET names == {n \in DOMAIN src : n[1] = CIVITAI_PFX \/ n = XATTR_WHERE}
      written == names \ failing
  IN [xattr |-> [n \in DOMAIN dst \cup written |-> IF n \in written THEN src[n] ELSE dst[n]],
      copied |-> Cardinality(written)]
\* the writes that fail: none, the write of one tag, or every write (an output
\* volume without extended attributes)
FailSets(src) == {{}, {XATTR_SHA256}, DOMAIN src}
StagePropagate(i) ==
  LET me == proc[i]
      ckpt_path == OutPath(me.path)
  IN /\ me.pc = "propagate"
     /\ \E failing \in FailSets(XattrAt(me.path)) :
          LET res == propagate_xattrs(XattrAt(me.path), XattrAt(ckpt_path), failing)
          IN /\ inode' = SetXattr(ckpt_path, res.xattr)
             /\ proc' = Upd(i, Returning([me EXCEPT !.log = Append(@, "propagate"),
                                                    !.failing = failing,
                                                    !.copied = res.copied],
                                         "True", <<>>))
     /\ UNCHANGED <<dir, orig, nReplace, crashed, entries, cls, cfg, main, hist>>

\* the rest of process_file leaves the input file as it is
Finish(i) ==
  /\ proc[i].pc = "resolve"
  /\ proc' = Upd(i, Returning(proc[i], "True", <<>>))
  /\ UNCHANGED <<dir, inode, orig, nReplace, crashed, entries, cls, cfg, main, hist>>

\* process_file has returned (or raised) to its caller
Return(i) ==
  /\ proc[i].pc = "return"
  /\ proc' = Upd(i, IdleProc)
  /\ UNCHANGED <<dir, inode, orig, nReplace, crashed, entries, cls, cfg, main, hist>>

\* the process dies at any point of a run: open handles close, files stay
Crash(i) ==
  LET pr == Upd(i, IdleProc)
  IN /\ proc[i].pc # "idle"
     /\ proc' = pr
     /\ inode' = Release(dir, inode, pr)
     /\ crashed' = TRUE
     /\ UNCHANGED <<dir, orig, nReplace, entries, cls, cfg, main, hist>>

Next ==
  \E i \in Inst :
    \/ Start(i)
    \/ StageSha(i)
    \/ StageCivitaiSkip(i)
    \/ StageCivitaiAbsent(i)
    \/ StageCivitaiFetch(i)
    \/ Stage3Skip(i)
    \/ FixAlready(i)
    \/ FixOpenClean(i)
    \/ FixOpenDirty(i)
    \/ TmpOpen(i)
    \/ WriteLen(i)
    \/ WriteHeader(i)
    \/ CopyChunk(i)
    \/ CopyDone(i)
    \/ Replace(i)
    \/ MarkSha(i)
    \/ MarkFix(i)
    \/ EarlyExit(i)
    \/ Preflight(i)
    \/ StageRead(i)
    \/ Finish(i)
    \/ Return(i)
    \/ Crash(i)

Spec == Init /\ [][Next]_vars

\* ------------------------------------------------------- the full pipeline
\* process_file, all stages, run any number of times on one input file: files
\* with and without something to fix, a header above the sanity bound, and
\* two corrupt files (a length prefix reaching into the payload, a header
\* ending in a key)
Tb59Key == TensorName(<<Word("transformer_blocks"), DOT, Num(59), DOT, Word("txt_mlp")>>)
Tb37Key == TensorName(<<Word("transformer_blocks"), DOT, Num(37), DOT, Word("attn")>>)
ZKey ==
  TensorName(<<Word("layers"), DOT, Num(29), DOT, Word("feed_forward"), DOT, Word("w3")>>)
PlainKey == TensorName(<<Word("attn")>>)
RunHeaders ==
  {<<[k |-> Tb59Key, v |-> Descriptor(1)]>>,
   <<[k |-> <<HDR_PREFIX>> \o Tb59Key, v |-> Descriptor(1)]>>,
   <<[k |-> METADATA_KEY, v |-> MetadataBlock], [k |-> PlainKey, v |-> Descriptor(2)]>>,
   <<[k |-> <<HDR_PREFIX>> \o Tb59Key, v |-> Descriptor(1)],
     [k |-> Tb37Key, v |-> Descriptor(2)], [k |-> ZKey, v |-> Descriptor(3)]>>}
CorruptFiles ==
  {<<Len(Tb59Key) + 2>> \o Tb59Key \o <<Descriptor(1)>> \o Payload,
   <<Len(PlainKey)>> \o PlainKey \o Payload}
RunFiles == {FileBytes(h, Payload) : h \in RunHeaders} \cup CorruptFiles
RunCfgs ==
  {DefaultCfg, [DefaultCfg EXCEPT !.cli_version = "flux2_4b"],
   [DefaultCfg EXCEPT !.dry_run = TRUE], [DefaultCfg EXCEPT !.size_limit_mb = 1],
   [DefaultCfg EXCEPT !.non_interactive = FALSE]}
\* the registry load_json returns: empty, or one entry of an earlier import of
\* another file with the same content
FirstEntry(bytes) ==
  [sha256 |-> sha256_file(Converted(bytes)), name |-> <<"first">>, version |-> "flux2",
   file |-> <<"out", "first", "ckpt">>,
   civitai |-> [f \in {"sha256"} |-> sha256_file(bytes)]]
\* an entry that records the provider id of RespFull, for another content
IdEntry ==
  [sha256 |-> <<0>>, name |-> <<"byid">>, version |-> "qwen_image",
   file |-> <<"out", "byid", "ckpt">>,
   civitai |-> [f \in {"id", "sha256"} |-> IF f = "id" THEN <<RespFull["id"]>> ELSE <<0>>]]
InitRun ==
  /\ \E bytes \in RunFiles :
       /\ inode = [n \in Inos |-> IF n = 1 THEN [bytes |-> bytes, xattr |-> EmptyFcn]
                                  ELSE FreeInode]
       /\ orig = [p \in AllInputs |-> IF p = SRC THEN bytes ELSE <<>>]
       /\ entries \in {<<>>, <<FirstEntry(bytes)>>, <<IdEntry>>}
  /\ dir = [p \in Paths |-> IF p = SRC THEN 1 ELSE 0]
  /\ proc = [i \in Inst |-> IdleProc]
  /\ nReplace = [p \in AllInputs |-> 0]
  /\ crashed = FALSE
  /\ cls = IdleCls
  /\ cfg \in RunCfgs
  /\ main = IdleMain
  /\ hist = [p \in AllInputs |-> NoHist]

NextRun ==
  \E i \in Inst :
    \/ Start(i)
    \/ StageSha(i)
    \/ StageCivitaiSkip(i)
    \/ StageCivitaiAbsent(i)
    \/ StageCivitaiFetch(i)
    \/ StageCivitaiRaise(i)
    \/ Stage3Skip(i)
    \/ FixAlready(i)
    \/ FixOpenClean(i)
    \/ FixOpenDirty(i)
    \/ FixOpenRaise(i)
    \/ TmpOpen(i)
    \/ WriteLen(i)
    \/ WriteHeader(i)
    \/ CopyChunk(i)
    \/ CopyDone(i)
    \/ Replace(i)
    \/ MarkSha(i)
    \/ MarkFix(i)
    \/ EarlyExit(i)
    \/ Preflight(i)
    \/ PreflightReject(i)
    \/ StageRead(i)
    \/ StageResolve(i)
    \/ Convert(i)
    \/ PromptNone(i)
    \/ PromptChoice(i)
    \/ ConvertRetry(i)
    \/ FindNone(i)
    \/ FindNew(i)
    \/ StageRegister(i)
    \/ StagePropagate(i)
    \/ Return(i)
SpecRun == InitRun /\ [][NextRun]_vars

\* ----------------------------------------------------------------- main
\* one run of main over a list of two files.  The committed source reads
\* args.fix_only, args.tag_only and args.skip_* although the add_argument
\* calls for them are commented out (has_mode_args = FALSE); has_mode_args =
\* TRUE is main with the options its help text documents
needs_convert(mode) == ~(mode["fix_only"] \/ mode["tag_only"] \/ mode["skip_convert"])

\* line 1132: the attribute lookup fails
MainArgsRaise ==
  /\ main.pc = "args"
  /\ ~main.has_mode_args
  /\ main' = [main EXCEPT !.pc = "aborted", !.error = <<"AttributeError">>]
  /\ UNCHANGED <<dir, inode, proc, orig, nReplace, crashed, cls, cfg, entries, hist>>

\* collect the files, load the registry when a conversion is due
MainArgs ==
  /\ main.pc = "args"
  /\ main.has_mode_args
  /\ entries' = IF needs_convert(main.mode) THEN main.saved ELSE <<>>
  /\ main' = [main EXCEPT !.pc = "loop", !.idx = 1]
  /\ UNCHANGED <<dir, inode, proc, orig, nReplace, crashed, cls, cfg, hist>>

\* the loop body calls process_file for the next file
MainCall(i) ==
  /\ main.pc = "loop"
  /\ main.idx <= Len(main.files)
  /\ proc[i].pc = "idle"
  /\ proc' = Upd(i, [IdleProc EXCEPT !.pc = "sha", !.path = main.files[main.idx],
                                     !.mode = main.mode])
  /\ main' = [main EXCEPT !.pc = "call"]
  /\ UNCHANGED <<dir, inode, orig, nReplace, crashed, cls, cfg, entries, hist>>

\* process_file returned: count the file and go on
MainNext(i) ==
  /\ main.pc = "call"
  /\ proc[i].pc = "return" /\ proc[i].ret \in {"True", "False"}
  /\ main' = [main EXCEPT !.pc = "loop", !.idx = @ + 1,
                          !.success = IF proc[i].ret = "True" THEN @ + 1 ELSE @,
                          !.skipped = IF proc[i].ret = "False" THEN @ + 1 ELSE @]
  /\ proc' = Upd(i, IdleProc)
  /\ UNCHANGED <<dir, inode, orig, nReplace, crashed, cls, cfg, entries, hist>>

\* process_file raised: nothing in main catches, the run ends here
MainRaise(i) ==
  /\ main.pc = "call"
  /\ proc[i].pc = "return" /\ proc[i].ret = "raise"
  /\ main' = [main EXCEPT !.pc = "aborted", !.error = proc[i].reason]
  /\ proc' = Upd(i, IdleProc)
  /\ UNCHANGED <<dir, inode, orig, nReplace, crashed, cls, cfg, entries, hist>>

\* after the loop: save_json if anything was converted, then the summary
MainSave ==
  /\ main.pc = "loop"
  /\ main.idx > Len(main.files)
  /\ main' = [main EXCEPT !.pc = "done",
                          !.saved = IF needs_convert(main.mode) /\ ~cfg.dry_run
                                       /\ main.success > 0
                                    THEN entries ELSE @]
  /\ UNCHANGED <<dir, inode, proc, orig, nReplace, crashed, cls, cfg, entries, hist>>

\* the files of a batch: clean, to be fixed, corrupt, and clean and tagged by
\* an earlier run
BatchFiles ==
  {[bytes |-> FileBytes(<<[k |-> Tb59Key, v |-> Descriptor(1)]>>, Payload),
    xattr |-> EmptyFcn],
   [bytes |-> FileBytes(<<[k |-> <<HDR_PREFIX>> \o Tb59Key, v |-> Descriptor(1)]>>, Payload),
    xattr |-> EmptyFcn],
   [bytes |-> <<Len(PlainKey)>> \o PlainKey \o Payload, xattr |-> EmptyFcn],
   [bytes |-> FileBytes(<<[k |-> Tb59Key, v |-> Descriptor(1)]>>, Payload),
    xattr |-> mark_fix(EmptyFcn, 0)]}
BatchCfgs ==
  {DefaultCfg, [DefaultCfg EXCEPT !.dry_run = TRUE],
   [DefaultCfg EXCEPT !.non_interactive = FALSE]}
InitBatch ==
  /\ \E f1, f2 \in BatchFiles :
       /\ inode = [n \in Inos |-> IF n = 1 THEN f1 ELSE IF n = 2 THEN f2 ELSE FreeInode]
       /\ orig = [p \in AllInputs |-> IF p = SRC THEN f1.bytes ELSE f2.bytes]
  /\ dir = [p \in Paths |-> IF p = SRC THEN 1 ELSE IF p = SRC2 THEN 2 ELSE 0]
  /\ proc = [i \in Inst |-> IdleProc]
  /\ nReplace = [p \in AllInputs |-> 0]
  /\ crashed = FALSE
  /\ cls = IdleCls
  /\ cfg \in BatchCfgs
  /\ entries = <<>>
  /\ \E m \in Modes, has \in BOOLEAN :
       main = [IdleMain EXCEPT !.pc = "args", !.files = <<SRC, SRC2>>, !.mode = m,
                               !.has_mode_args = has]
  /\ hist = [p \in AllInputs |-> NoHist]

NextBatch ==
  \/ MainArgsRaise
  \/ MainArgs
  \/ MainSave
  \/ \E i \in Inst :
       \/ MainCall(i)
       \/ MainNext(i)
       \/ MainRaise(i)
       \/ StageSha(i)
       \/ StageCivitaiSkip(i)
       \/ StageCivitaiAbsent(i)
       \/ StageCivitaiFetch(i)
       \/ StageCivitaiRaise(i)
       \/ Stage3Skip(i)
       \/ FixAlready(i)
       \/ FixOpenClean(i)
       \/ FixOpenDirty(i)
       \/ FixOpenRaise(i)
       \/ TmpOpen(i)
       \/ WriteLen(i)
       \/ WriteHeader(i)
       \/ CopyChunk(i)
       \/ CopyDone(i)
       \/ Replace(i)
       \/ MarkSha(i)
       \/ MarkFix(i)
       \/ EarlyExit(i)
       \/ Preflight(i)
       \/ PreflightReject(i)
       \/ StageRead(i)
       \/ StageResolve(i)
       \/ Convert(i)
       \/ PromptNone(i)
       \/ PromptChoice(i)
       \/ ConvertRetry(i)
       \/ FindNone(i)
       \/ FindNew(i)
       \/ StageRegister(i)
       \/ StagePropagate(i)
SpecBatch == InitBatch /\ [][NextBatch]_vars

\* ------------------------------------------ classifier and version resolution
\* the two functions applied to every header, provider label and override of
\* the input space; the file system plays no part
InitCls ==
  /\ dir = [p \in Paths |-> 0]
  /\ inode = [n \in Inos |-> FreeInode]
  /\ proc = [i \in Inst |-> IdleProc]
  /\ orig = [p \in AllInputs |-> <<>>]
  /\ nReplace = [p \in AllInputs |-> 0]
  /\ crashed = FALSE
  /\ cfg = DefaultCfg
  /\ entries = <<>>
  /\ main = IdleMain
  /\ hist = [p \in {} |-> NoHist]
  /\ \E h \in ClsHeaders, b \in BaseModels, c \in CliVersions :
       cls = [IdleCls EXCEPT !.pc = "input", !.header = h, !.base_model = b,
                             !.cli_version = c]

Detect ==
  /\ cls.pc = "input"
  /\ cls' = [cls EXCEPT !.pc = "detected", !.version = detect_version_from_keys(cls.header)]
  /\ UNCHANGED <<dir, inode, proc, orig, nReplace, crashed, cfg, entries, main, hist>>

Resolve ==
  /\ cls.pc = "input"
  /\ cls' = [cls EXCEPT !.pc = "resolved",
                        !.version = resolve_version(cls.base_model, cls.header, TRUE,
                                                    cls.cli_version)]
  /\ UNCHANGED <<dir, inode, proc, orig, nReplace, crashed, cfg, entries, main, hist>>

\* the header as the fixer writes it: the length prefix and the compact JSON
\* of a mapping without the metadata key and with nothing to fix
Encode ==
  /\ cls.pc = "input"
  /\ METADATA_KEY \notin DictKeys(cls.header)
  /\ LET fixed_bytes == build_fixed_header(cls.header, 0)
     IN cls' = [cls EXCEPT !.pc = "encoded", !.encoded = <<Len(fixed_bytes)>> \o fixed_bytes]
  /\ UNCHANGED <<dir, inode, proc, orig, nReplace, crashed, cfg, entries, main, hist>>

Decode ==
  /\ cls.pc = "encoded"
  /\ cls' = [cls EXCEPT !.pc = "decoded", !.decoded = read_safetensors_header(cls.encoded)]
  /\ UNCHANGED <<dir, inode, proc, orig, nReplace, crashed, cfg, entries, main, hist>>

NextCls == Detect \/ Resolve \/ Encode \/ Decode
SpecCls == InitCls /\ [][NextCls]_vars

\* ------------------------------------------------------ concurrent tasks
\* two tasks, each running process_file once, their steps interleaved.  The
\* second task's file is b.safetensors or a.tmp.safetensors, both names
\* collect_safetensors accepts, or the first task's own file (two pipeline
\* instances on the same file).  Stages 4 to 8 write no input file, so the
\* runs are taken to their checkpoint
Tasks == {1, 2}
ParPairs == {<<SRC, SRC2>>, <<SRC, TmpOf(SRC)>>, <<SRC, SRC>>}
ParPaths ==
  LET ins == {SRC, SRC2, TmpOf(SRC)}
  IN ins \cup {TmpOf(p) : p \in ins}
ParModes == {ModeOf({"fix_only"}), ModeOf({"tag_only"}), ModeOf({"skip_convert"})}
ParFiles ==
  {FileBytes(<<[k |-> PlainKey, v |-> Descriptor(1)]>>, Payload),
   FileBytes(<<[k |-> <<HDR_PREFIX>> \o PlainKey, v |-> Descriptor(1)]>>, Payload)}

\* the path names no file where the code opens it or sets a tag on it, or
\* the temporary file is gone where the code renames it: FileNotFoundError,
\* or OSError from setxattr, leaves process_file
FileMissing(i) ==
  LET me == proc[i]
  IN /\ me.pc \in {"sha", "civitai", "stage3", "replace", "mark_sha", "mark_fix"}
     /\ me.pc = "stage3" => ~(me.mode["skip_fix"] \/ me.mode["tag_only"])
     /\ me.pc = "civitai" => ~me.mode["skip_civitai"]
     /\ IF me.pc = "replace" THEN ~Exists(TmpOf(me.path)) ELSE ~Exists(me.path)
     /\ proc' = Upd(i, Returning(me, "raise", <<"FileNotFoundError">>))
     /\ UNCHANGED <<dir, inode, orig, nReplace, crashed, entries, cls, cfg, main, hist>>

InitPar ==
  /\ \E pair \in ParPairs :
       /\ dir = [p \in ParPaths |-> IF p = pair[1] THEN 1 ELSE IF p = pair[2] THEN 2 ELSE 0]
       /\ \E b1, b2 \in ParFiles :
            /\ inode = [n \in Inos |-> IF n = 1 THEN [bytes |-> b1, xattr |-> EmptyFcn]
                                       ELSE IF n = 2 /\ pair[2] # pair[1]
                                         THEN [bytes |-> b2, xattr |-> EmptyFcn]
                                       ELSE FreeInode]
            /\ pair[2] = pair[1] => b2 = b1
            /\ orig = [p \in {pair[1], pair[2]} |-> IF p = pair[1] THEN b1 ELSE b2]
       /\ nReplace = [p \in {pair[1], pair[2]} |-> 0]
       /\ \E m1, m2 \in ParModes :
            proc = [i \in Tasks |-> [IdleProc EXCEPT !.pc = "sha", !.path = pair[i],
                                                     !.mode = IF i = 1 THEN m1 ELSE m2]]
  /\ crashed = FALSE
  /\ cls = IdleCls
  /\ cfg = DefaultCfg
  /\ entries = <<>>
  /\ main = IdleMain
  /\ hist = [p \in {} |-> NoHist]

NextPar ==
  \E i \in Tasks :
    \/ StageSha(i)
    \/ StageCivitaiAbsent(i)
    \/ StageCivitaiFetch(i)
    \/ StageCivitaiRaise(i)
    \/ Stage3Skip(i)
    \/ FixOpenClean(i)
    \/ FixOpenDirty(i)
    \/ FixOpenRaise(i)
    \/ TmpOpen(i)
    \/ WriteLen(i)
    \/ WriteHeader(i)
    \/ CopyChunk(i)
    \/ CopyDone(i)
    \/ Replace(i)
    \/ MarkSha(i)
    \/ MarkFix(i)
    \/ EarlyExit(i)
    \/ FileMissing(i)
SpecPar == InitPar /\ [][NextPar]_vars

TypeOK ==
  /\ \A p \in DOMAIN dir : dir[p] \in 0..MaxIno
  /\ \A i \in DOMAIN proc : proc[i].pc \in {"idle", "sha", "civitai", "stage3", "tmp_open",
        "write_len", "write_hdr", "copy", "replace", "mark_sha", "mark_fix",
        "early_exit", "read", "resolve", "return", "convert", "prompt", "retry",
        "find", "register", "propagate"}

\* ===================================================================== claims
FixTagAt(p) == IF XATTR_FIX \in DOMAIN XattrAt(p) THEN XattrAt(p)[XATTR_FIX] ELSE "unset"
Fixed == {"1", "2", "3"}
Strip(key) == IF startswith(key, HDR_PREFIX) THEN Tail(key) ELSE key
\* the complete file a rewrite of bytes b produces
FixBytes(b) ==
  FileBytes(fixed_mapping(HeaderOf(b), detect_fixes(HeaderOf(b))), PayloadOf(b))

\* C1: a fix_header_inplace call entered with the fix-state tag set opens no
\* file, writes no byte and no tag; without a crash the file is replaced at
\* most once.
C1_ShortCircuit ==
  /\ \A i \in Inst :
       LET me == proc[i]
           c == me.call
       IN c.called /\ c.entryTagged =>
            /\ c.opens = 0 /\ c.tmpOpens = 0 /\ c.replaces = 0 /\ c.tagWrites = 0
            /\ me.fin = NoHandle /\ me.fout = NoHandle
            /\ BytesAt(me.path) = c.entryBytes
            /\ XattrAt(me.path) = c.entryXattr
            /\ Exists(TmpOf(me.path)) = c.entryTmp
  /\ ~crashed => \A p \in Inputs : nReplace[p] <= 1
C1_Witness ==
  \E i \in Inst : /\ proc[i].call.called /\ proc[i].call.entryTagged
                  /\ nReplace[proc[i].path] = 1 /\ ~crashed

\* C2: after a rewrite of a header holding the metadata key, the metadata key
\* is gone, the prefixed keys are renamed with the prefix stripped, the other
\* keys are unchanged, the number of tensor keys is preserved and the payload
\* is identical.
C2_RewriteCorrect ==
  \A i \in Inst :
    LET me == proc[i]
        c == me.call
        h0 == HeaderOf(c.entryBytes)
        rest == DictPop(h0, METADATA_KEY)
        h1 == HeaderOf(BytesAt(me.path))
    IN c.called /\ c.replaces >= 1 /\ METADATA_KEY \in DictKeys(h0) =>
         /\ METADATA_KEY \notin DictKeys(h1)
         /\ Len(h1) = Len(h0) - 1
         /\ h1 = [j \in DOMAIN rest |-> [k |-> Strip(rest[j].k), v |-> rest[j].v]]
         /\ PayloadOf(BytesAt(me.path)) = PayloadOf(c.entryBytes)

\* C3: when detection finds nothing to fix, the call leaves the file's bytes
\* identical, creates no temporary file and sets the fix-state tag to 0.
C3_CleanNoOp ==
  \A i \in Inst :
    LET me == proc[i]
        c == me.call
    IN c.called /\ ~c.entryTagged /\ detect_fixes(HeaderOf(c.entryBytes)) = 0 =>
         /\ BytesAt(me.path) = c.entryBytes
         /\ c.tmpOpens = 0 /\ c.replaces = 0
         /\ Exists(TmpOf(me.path)) = c.entryTmp
         /\ me.fout = NoHandle
         /\ FixTagAt(me.path) = "0"
C3_Witness ==
  \E i \in Inst : /\ proc[i].call.called /\ ~proc[i].call.entryTagged
                  /\ detect_fixes(HeaderOf(proc[i].call.entryBytes)) = 0
                  /\ proc[i].pc = "early_exit"
                  /\ FixTagAt(proc[i].path) = "0"

\* C4: every step, a crash included, leaves the original path holding the
\* bytes it held or the complete rewrite of them; the bytes change only by
\* the rename of the temporary file over the path.
C4_AtomicReplace ==
  [][\A p \in Inputs :
       /\ Exists(p)'
       /\ BytesAt(p)' \in {BytesAt(p), FixBytes(BytesAt(p))}
       /\ BytesAt(p)' # BytesAt(p) => dir'[p] = dir[TmpOf(p)] /\ dir'[TmpOf(p)] = 0]_vars
C4_Witness ==
  /\ crashed
  /\ Exists(TmpOf(SRC))
  /\ Len(BytesAt(TmpOf(SRC))) > 0
  /\ Len(BytesAt(TmpOf(SRC))) < Len(FixBytes(orig[SRC]))
  /\ BytesAt(SRC) = orig[SRC]

\* C5: the fix-state tag is Fixed(flags) only after the replace: never while
\* the path still holds the unfixed header.
C5_TagAfterReplace ==
  \A p \in Inputs :
    FixTagAt(p) \in Fixed =>
      /\ nReplace[p] >= 1
      /\ BytesAt(p) # orig[p]
      /\ HeaderOf(BytesAt(p)) # HeaderOf(orig[p])
C5_Witness ==
  \E i \in Inst : /\ proc[i].pc = "early_exit" /\ proc[i].call.replaces = 1
                  /\ FixTagAt(proc[i].path) \in Fixed

\* C6: the header build_fixed_header produces for a header needing a fix
\* needs no fix itself.
C6_DetectIdempotent ==
  \A i \in Inst :
    proc[i].pc = "tmp_open" => detect_fixes(json_loads(proc[i].fixed_bytes)) = 0

\* C7: the content-hash tag, when present, is the digest of the file's
\* original bytes.
C7_HashPinned ==
  \A p \in Inputs :
    XATTR_SHA256 \in DOMAIN XattrAt(p) => XattrAt(p)[XATTR_SHA256] = sha256_file(orig[p])

\* C8: a tag present on the file at a path is still present on the file at
\* that path after every step.
C8_TagsMonotone ==
  [][\A p \in Inputs : DOMAIN XattrAt(p) \subseteq DOMAIN XattrAt(p)']_vars

\* C9: the fix-state tag only goes from unset to 0 (nothing detected, file
\* untouched) or from unset to the flags detected on the header the file had
\* before the replace; once set it never changes.
C9_FixStateMachine ==
  [][\A p \in Inputs :
       /\ FixTagAt(p) # "unset" => FixTagAt(p)' = FixTagAt(p)
       /\ FixTagAt(p) = "unset" /\ FixTagAt(p)' # "unset" =>
            \/ /\ FixTagAt(p)' = "0"
               /\ detect_fixes(HeaderOf(BytesAt(p))) = 0
               /\ BytesAt(p)' = BytesAt(p)
            \/ /\ FixTagAt(p)' \in Fixed
               /\ \E i \in Inst :
                    /\ proc[i].path = p
                    /\ proc[i].call.replaces = 1
                    /\ detect_fixes(HeaderOf(proc[i].call.entryBytes)) \in 1..3
                    /\ IntOfStr(FixTagAt(p)') =
                         detect_fixes(HeaderOf(proc[i].call.entryBytes))
                    /\ BytesAt(p) = FixBytes(proc[i].call.entryBytes)]_vars
C9_Witness ==
  \E i \in Inst : /\ proc[i].pc = "stage3" /\ crashed
                  /\ FixTagAt(proc[i].path) \in {"2", "3"}
                  /\ nReplace[proc[i].path] = 1

\* C10: over all runs, crashed and re-run ones included, the file is replaced
\* at most once, and the header stage 5 reads is the one the path holds.
C10_ReplacedOnce ==
  /\ \A p \in Inputs : nReplace[p] <= 1
  /\ \A i \in Inst : proc[i].pc = "resolve" =>
                       proc[i].seen = HeaderOf(BytesAt(proc[i].path))


\* ------------------------------------------------------------ C11 .. C14
ClsKeys == DictKeys(cls.header) \ {METADATA_KEY}
NoLandmark == \A idx \in {39, 23, 19} : ~HasLandmark(ClsKeys, idx)
HasDsm == InKeyStr(ClsKeys, <<Word("double_stream_modulation")>>)

\* C11: a key set whose maximum transformer-block index is 59, with no
\* double_stream_modulation tensor, no architecture hint and no single-block
\* landmark, is classified qwen_image and not as a flux2 variant
C11_LargeIndexQwen ==
  (/\ cls.pc = "detected"
   /\ MaxTbIdx(ClsKeys) = 59
   /\ ~HasDsm
   /\ HeaderArch(cls.header) = {}
   /\ NoLandmark)
  => cls.version = "qwen_image"

\* C12 as stated: whatever else the header holds, the 39 landmark together
\* with the 23 or 19 landmark classifies as flux2, and the 23 and 19 landmarks
\* without the 39 landmark classify as flux2_9b
C12_LandmarkOrderAlways ==
  cls.pc = "detected" =>
    /\ (HasLandmark(ClsKeys, 39) /\ (HasLandmark(ClsKeys, 23) \/ HasLandmark(ClsKeys, 19)))
         => cls.version = "flux2"
    /\ (~HasLandmark(ClsKeys, 39) /\ HasLandmark(ClsKeys, 23) /\ HasLandmark(ClsKeys, 19))
         => cls.version = "flux2_9b"
\* C12 amended: the same, for a header whose architecture hint does not
\* decide the version before the landmarks are looked at
C12_LandmarkOrder ==
  (cls.pc = "detected" /\ ArchRule(HeaderArch(cls.header)) = None) =>
    /\ (HasLandmark(ClsKeys, 39) /\ (HasLandmark(ClsKeys, 23) \/ HasLandmark(ClsKeys, 19)))
         => cls.version = "flux2"
    /\ (~HasLandmark(ClsKeys, 39) /\ HasLandmark(ClsKeys, 23) /\ HasLandmark(ClsKeys, 19))
         => cls.version = "flux2_9b"
C12_Witness ==
  /\ cls.pc = "detected"
  /\ ArchRule(HeaderArch(cls.header)) = None
  /\ HasLandmark(ClsKeys, 39) /\ HasLandmark(ClsKeys, 23)
  /\ cls.version = "flux2"

FullMode(me) == me.mode = ModeOf({})
Events(me) == Range(me.log)

\* C13: in a run without an override whose provider record (fetched in the
\* run or cached before it) carries a family label of the table, the version
\* passed to the conversion tool is the table's variant for that label
C13_LabelDecides ==
  \A i \in Inst :
    LET me == proc[i]
    IN (/\ me.cmd_version # "unset"
        /\ cfg.cli_version = ""
        /\ me.label # "" /\ InTable(me.label))
       => me.cmd_version = CIVITAI_TO_DT_VERSION(me.label)

\* C15: a full run that ends without an exception, on a file whose content
\* hash was cached before the run and equals the source hash of a registry
\* entry, returns False with a reason
\* naming that entry, and has not queried the provider, rewritten the header
\* or called the conversion tool
C15_DedupFirst ==
  \A i \in Inst :
    LET me == proc[i]
        existing == is_duplicate(entries, <<>>, me.sha256)
    IN (/\ me.pc = "return" /\ me.ret # "raise" /\ FullMode(me)
        /\ "sha" \in Events(me) /\ "hash" \notin Events(me)
        /\ "register" \notin Events(me)
        /\ existing # <<>>)
       => /\ me.ret = "False"
          /\ me.reason = <<"already imported as">> \o existing \o <<"(SHA256 match)">>
          /\ Events(me) \cap {"fetch", "rewrite", "convert"} = {}

\* C16: a full run that ends without an exception, on a file larger than the
\* configured size limit, returns False for its size, and nothing but the
\* size check has run: no hashing, no provider query, no header fix
C16_SizeFirst ==
  \A i \in Inst :
    LET me == proc[i]
    IN (/\ me.pc = "return" /\ me.ret # "raise" /\ FullMode(me)
        /\ cfg.size_limit_mb > 0
        /\ Len(BytesAt(me.path)) > cfg.size_limit_mb * MiB)
       => /\ me.ret = "False"
          /\ me.reason = <<"file too large">>
          /\ Events(me) \subseteq {"preflight"}

\* C18: no outcome of the provider request leaves process_file as an
\* exception
C18_FetchFailOpen ==
  \A i \in Inst :
    ~(proc[i].pc = "return" /\ proc[i].ret = "raise" /\ "fetch" \in Events(proc[i])
      /\ proc[i].reason = <<"HTTPError">>)

\* C19: a file whose declared header length is above the sanity bound is
\* never replaced and never gets a fix-state tag
C19_SanityBound ==
  \A p \in Inputs :
    HeaderLenOf(orig[p]) > HEADER_MAX => nReplace[p] = 0 /\ FixTagAt(p) = "unset"

\* C20: the stages of a run start in the order hash, provider, fix,
\* pre-flight, version, conversion, re-hash, register, propagate; the provider
\* is queried unless a provider record is cached on the file or lookups are
\* disabled; the fixer is entered unless skip_fix or tag_only is set
StageRank(ev) ==
  CASE ev = "sha" -> 1 [] ev = "hash" -> 2 [] ev = "fetch" -> 3 [] ev = "fix" -> 4
    [] ev = "rewrite" -> 5 [] ev = "preflight" -> 6 [] ev = "version" -> 7
    [] ev = "convert" -> 8 [] ev = "rehash" -> 9 [] ev = "register" -> 10
    [] OTHER -> 11
InOrder(log) == \A a, b \in DOMAIN log : a < b => StageRank(log[a]) <= StageRank(log[b])
RecordCached(xattr) == \E n \in DOMAIN xattr : n[1] = CIVITAI_PFX /\ n # XATTR_SHA256
C20_StageOrder ==
  [][\A i \in Inst :
       LET me == proc[i]
           after == proc'[i]
       IN /\ InOrder(after.log)
          /\ (me.pc = "civitai" /\ after.pc # "civitai") =>
               ("fetch" \notin Range(after.log)
                  <=> (RecordCached(XattrAt(me.path)) \/ me.mode["skip_civitai"]))
          /\ (me.pc = "stage3" /\ after.pc # "stage3") =>
               ("fix" \notin Range(after.log)
                  <=> (me.mode["skip_fix"] \/ me.mode["tag_only"]))]_vars


HasCheckpoint(mode) == mode["tag_only"] \/ mode["fix_only"] \/ mode["skip_convert"]
LaterStages == {"preflight", "version", "convert", "rehash", "register", "propagate"}
\* what one full run leaves of a file with the bytes b: the bytes, the
\* fix-state tag and the content-hash tag
Alone(b) ==
  LET flags == detect_fixes(HeaderOf(b))
  IN [bytes |-> IF flags = 0 THEN b ELSE FixBytes(b), fix |-> StrOfFlags(flags),
      sha |-> sha256_file(b)]
Left(p) == [bytes |-> BytesAt(p), fix |-> FixTagAt(p), sha |-> get_sha256_xattr(XattrAt(p))]

\* C21: a run with a checkpoint starts no stage after stage 3, and a tag-only
\* run does not enter the fixer; a full run that returns, after runs that
\* left at their checkpoint or as the first run, leaves the bytes, the
\* fix-state tag and the content-hash tag one full run leaves
C21_Checkpoint ==
  \A i \in Inst :
    LET me == proc[i]
    IN /\ HasCheckpoint(me.mode) => Events(me) \cap LaterStages = {}
       /\ me.mode["tag_only"] =>
            ~me.call.called /\ Events(me) \cap {"fix", "rewrite"} = {}
       /\ (me.pc = "return" /\ me.ret # "raise" /\ FullMode(me)) =>
            Left(me.path) = Alone(orig[me.path])
C21_Witness ==
  \E i \in Inst :
    LET me == proc[i]
    IN /\ me.pc = "return" /\ me.ret = "True" /\ FullMode(me)
       /\ hist[me.path].checkpointed
       /\ nReplace[me.path] = 1 /\ "rewrite" \notin Events(me)
       /\ "register" \in Events(me)

\* C22: over all runs on a file the provider is fetched successfully at most
\* once, and a cached record field never changes or disappears
ProviderTags(xattr) ==
  {n \in DOMAIN xattr : n[1] = CIVITAI_PFX /\ n # XATTR_SHA256}
C22_FetchOnce ==
  \A p \in Inputs :
    /\ hist[p].fetches <= 1
    /\ hist[p].fetches = 1 /\ (\A i \in Inst : proc[i].pc \in {"idle", "return"}) =>
         ProviderTags(XattrAt(p)) # {}

\* C23: ensure_sha256 returns the content-hash tag when it is present, reading
\* and writing nothing; otherwise it hashes the file, stores the digest and
\* returns it.  Over crash-free runs every call returns the same value, the
\* digest of the original bytes, and the file is hashed at most once
C23_EnsureSha ==
  [][\A i \in Inst :
       LET me == proc[i]
           after == proc'[i]
           tag == get_sha256_xattr(XattrAt(me.path))
       IN (me.pc = "sha" /\ after.pc = "civitai") =>
            /\ tag # <<>> => /\ after.sha256 = tag
                             /\ "hash" \notin Range(after.log)
                             /\ inode' = inode /\ hist' = hist
            /\ tag = <<>> => /\ after.sha256 = sha256_file(BytesAt(me.path))
                             /\ "hash" \in Range(after.log)
                             /\ get_sha256_xattr(XattrAt(me.path)') = after.sha256
            /\ after.sha256 = sha256_file(orig[me.path])
            /\ hist'[me.path].hashes <= 1]_vars
C23_Witness ==
  \E i \in Inst :
    LET me == proc[i]
    IN /\ me.pc = "civitai" /\ "hash" \notin Events(me)
       /\ nReplace[me.path] = 1 /\ BytesAt(me.path) # orig[me.path]
       /\ me.sha256 = sha256_file(orig[me.path])
       /\ hist[me.path].hashes = 1

\* C24: a full run (not a dry run) that fetches the provider record with the
\* id an entry of the registry records is rejected by the pre-flight as a
\* duplicate and calls no conversion
C24_DedupById ==
  \A i \in Inst :
    LET me == proc[i]
    IN (/\ me.pc = "return" /\ me.ret # "raise" /\ FullMode(me) /\ ~cfg.dry_run
        /\ "fetch" \in Events(me) /\ me.label = RespFull["baseModel"]
        /\ IdDupOf(entries, RespFull["id"]) # {})
       => /\ me.ret = "False"
          /\ "convert" \notin Events(me)

\* C25: a file whose header is readable and whose version stays unresolved is
\* never converted and registered: a run that registers has a version, and
\* the entry it appends has a non-empty version
C25_NoUnknownVersion ==
  \A i \in Inst :
    LET me == proc[i]
    IN ("register" \in Events(me) /\ me.seen # <<>>) =>
         /\ me.version # None
         /\ \A j \in DOMAIN entries :
              entries[j].file = OutPath(me.path) => entries[j].version # ""

\* C26: when the last invocation of the conversion tool in a run exits with a
\* non-zero status, the run hashes no output, appends no entry, propagates no
\* tag and returns False
C26_SuccessOnly ==
  \A i \in Inst :
    LET me == proc[i]
    IN (me.returncode # 0 /\ me.pc \notin {"prompt", "retry"}) =>
         /\ Events(me) \cap {"rehash", "register", "propagate"} = {}
         /\ me.pc = "return" => me.ret = "False"

\* C27: propagate_xattrs writes to dst every civitai.* tag and the where-from
\* tag of src whose write does not fail, with the value it has on src, and
\* nothing else: the other tags of dst keep their values, the fix-state tag
\* is never copied, a failed write stops no other write, src is unchanged,
\* and the count returned is the number of tags written
Propagated(xattr) == {n \in DOMAIN xattr : n[1] = CIVITAI_PFX \/ n = XATTR_WHERE}
C27_Propagate ==
  [][\A i \in Inst :
       LET me == proc[i]
           after == proc'[i]
           src == XattrAt(me.path)
           dst == XattrAt(OutPath(me.path))
           dst2 == XattrAt(OutPath(me.path))'
           done == Propagated(src) \ after.failing
       IN (me.pc = "propagate" /\ after.pc = "return") =>
            /\ DOMAIN dst2 = DOMAIN dst \cup done
            /\ \A n \in done : dst2[n] = src[n]
            /\ \A n \in DOMAIN dst \ done : dst2[n] = dst[n]
            /\ XATTR_FIX \notin DOMAIN dst2
            /\ after.copied = Cardinality(done)
            /\ XattrAt(me.path)' = src]_vars
C27_Witness ==
  \E i \in Inst :
    LET me == proc[i]
        dst == XattrAt(OutPath(me.path))
    IN /\ me.pc = "return" /\ "propagate" \in Events(me)
       /\ me.failing = {XATTR_SHA256} /\ me.copied >= 2
       /\ XATTR_FIX \in DOMAIN XattrAt(me.path)
       /\ XATTR_SHA256 \notin DOMAIN dst
       /\ XATTR_WHERE \in DOMAIN dst /\ <<CIVITAI_PFX, "baseModel">> \in DOMAIN dst

\* C28: every key of the header that is not dropped is found in the fixed
\* header, under its name or its name without the prefix, with the descriptor
\* it had, and the fixed header keeps these keys in their order
NewKey(key, flags) ==
  IF BitSet(flags, FIX_KEYS) /\ startswith(key, HDR_PREFIX) THEN Tail(key) ELSE key
Pos(d, key) == CHOOSE j \in DOMAIN d : d[j].k = key
C28_DescriptorsKept ==
  \A i \in Inst :
    LET me == proc[i]
        h0 == me.header
        h1 == json_loads(me.fixed_bytes)
        kept == {a \in DOMAIN h0 :
                   ~(BitSet(me.flags, FIX_METADATA) /\ h0[a].k = METADATA_KEY)}
    IN me.pc = "tmp_open" =>
         /\ \A a \in kept :
              /\ NewKey(h0[a].k, me.flags) \in DictKeys(h1)
              /\ h1[Pos(h1, NewKey(h0[a].k, me.flags))].v = h0[a].v
         /\ \A a, b \in kept :
              a < b => Pos(h1, NewKey(h0[a].k, me.flags)) < Pos(h1, NewKey(h0[b].k, me.flags))

\* C29 as stated: decoding the encoding of any mapping without the metadata
\* key gives the mapping back, keys, order and values
C29_RoundTripAlways ==
  cls.pc = "decoded" => cls.decoded = cls.header
\* C29 amended: the same, for a mapping whose encoded header is not longer
\* than the decoder's sanity bound
C29_RoundTrip ==
  (cls.pc = "decoded" /\ HeaderLenOf(cls.encoded) <= HEADER_MAX) => cls.decoded = cls.header
C29_Witness ==
  /\ cls.pc = "decoded"
  /\ Len(cls.header) = 2 /\ HeaderLenOf(cls.encoded) <= HEADER_MAX
  /\ cls.decoded = cls.header

\* C30: with one task per input file, a step of one task leaves the other
\* input file as it is (it exists, with the same bytes and tags), and when
\* both tasks have returned each file has the bytes, the fix-state tag and
\* the content-hash tag that processing it alone leaves
AloneIn(mode, b) ==
  IF mode["tag_only"] THEN [bytes |-> b, fix |-> "unset", sha |-> sha256_file(b)]
  ELSE Alone(b)
C30_Independent ==
  [][proc[1].path # proc[2].path =>
       /\ \A i \in Tasks, p \in DOMAIN orig :
            (proc'[i] # proc[i] /\ p # proc[i].path) =>
              /\ Exists(p)'
              /\ FileAt(p)' = FileAt(p)
       /\ (\A i \in Tasks : proc'[i].pc = "return" /\ proc'[i].ret = "True") =>
            \A i \in Tasks : Left(proc[i].path)' = AloneIn(proc[i].mode, orig[proc[i].path])]_vars

\* ---------------------------------------------------------------- C31 .. C38
\* both tasks run on one and the same file
SameFile == proc[1].path = proc[2].path
\* the tasks that have opened the temporary file for writing
Rewriting == {i \in Tasks : proc[i].call.tmpOpens > 0}
\* the guarantees of the fixer for the file at p: the path holds the original
\* bytes or the complete rewrite, the file was replaced at most once, and no
\* task failed on a missing file
Whole(p) == Exists(p) /\ BytesAt(p) \in {orig[p], FixBytes(orig[p])}
FailedOnReplace(i) ==
  /\ proc[i].pc = "return"
  /\ proc[i].reason = <<"FileNotFoundError">>
  /\ proc[i].call.tmpOpens > 0
  /\ proc[i].call.replaces = 0

\* C31: with two unsynchronised tasks on the same file the guarantees of the
\* fixer hold as long as at most one task has opened the temporary file; once
\* both have, a state is reachable in which the path holds a partially
\* written file (C31_Witness), as are states in which the file was replaced
\* twice and in which one task failed on the replace.
C31_NotAtomic ==
  (SameFile /\ Cardinality(Rewriting) <= 1) =>
    /\ Whole(SRC)
    /\ nReplace[SRC] <= 1
    /\ \A i \in Tasks : ~FailedOnReplace(i)
C31_Witness ==
  /\ SameFile
  /\ Cardinality(Rewriting) = 2
  /\ \E i \in Tasks : proc[i].call.replaces = 1
  /\ ~Whole(SRC)
C31_TwiceReached == SameFile /\ nReplace[SRC] = 2
C31_FailReached == SameFile /\ \E i \in Tasks : FailedOnReplace(i)

\* what each rule of the classifier gives for the header classified
Hint == HeaderArch(cls.header)
ByHint == ArchRule(Hint)
ByLandmark == LandmarkRule(ClsKeys)
ByScan == BlockRule(ClsKeys, Hint)
ByZImage == ZImageRule(ClsKeys)
ByQwen == QwenRule(ClsKeys)
BySdxl == SdxlRule(cls.header)

\* C32: the classifier returns the label of the earliest rule that gives
\* one, in the order architecture hint, landmarks, block-index scan, z_image
\* landmark, qwen landmark, sdxl fallback, and None when no rule gives one;
\* a key set for which both the scan and a later rule give a label gets the
\* scan's label.
C32_RuleOrder ==
  cls.pc = "detected" =>
    /\ ByHint # None => cls.version = ByHint
    /\ (ByHint = None /\ ByLandmark # None) => cls.version = ByLandmark
    /\ (ByHint = None /\ ByLandmark = None /\ ByScan # None) => cls.version = ByScan
    /\ (ByHint = None /\ ByLandmark = None /\ ByScan = None /\ ByZImage # None)
         => cls.version = ByZImage
    /\ (ByHint = None /\ ByLandmark = None /\ ByScan = None /\ ByZImage = None
          /\ ByQwen # None) => cls.version = ByQwen
    /\ (ByHint = None /\ ByLandmark = None /\ ByScan = None /\ ByZImage = None
          /\ ByQwen = None) => cls.version = BySdxl
C32_Witness ==
  /\ cls.pc = "detected"
  /\ ByHint = None /\ ByLandmark = None
  /\ ByScan = "flux2"
  /\ ByQwen = "qwen_image"
  /\ cls.version = "flux2"

\* C33: a hint naming sdxl, z_image or qwen and not flux gives that family's
\* label whatever the tensor keys are; a hint naming flux never decides: the
\* landmarks decide when one is present, and else the block-index scan gives
\* a flux2 variant when a block index or a double_stream_modulation tensor
\* is present.
FamilyOf(hint) ==
  IF "sdxl" \in hint THEN "sdxl_base_v0.9"
  ELSE IF hint \cap {"z_image", "zimagetturbo"} # {} THEN "z_image"
  ELSE "qwen_image"
C33_WitnessFamily ==
  /\ cls.pc = "detected"
  /\ Hint = {"qwen"}
  /\ HasLandmark(ClsKeys, 39)
  /\ cls.version = "qwen_image"

\* C34: when neither the hint nor a landmark decides, with M the maximum
\* block index (-1 when no name matches) and the flux signal a
\* double_stream_modulation tensor or a flux hint, the classifier returns
\* flux2 for M >= 24, flux2_9b for 20 <= M <= 23, flux2_4b for M <= 19 with
\* the flux signal or M = 19, and what the fallback rules give for M < 19
\* without the flux signal.
FluxSignal == HasDsm \/ "flux" \in Hint
Fallback == FirstLabel(<<ByZImage, ByQwen, BySdxl>>)
C34_Thresholds ==
  (cls.pc = "detected" /\ ByHint = None /\ ByLandmark = None) =>
    LET M == MaxTbIdx(ClsKeys)
    IN /\ M >= 24 => cls.version = "flux2"
       /\ (M >= 20 /\ M <= 23) => cls.version = "flux2_9b"
       /\ (M <= 19 /\ (FluxSignal \/ M = 19)) => cls.version = "flux2_4b"
       /\ (M < 19 /\ ~FluxSignal) => cls.version = Fallback

\* C35: without a deciding hint the sdxl label is returned only for a header
\* holding the attn2.to_k tensor with last shape dimension 2048; a header
\* with that tensor and another last dimension that matches no other rule is
\* unresolved.
HasSdxlTensor(dim) ==
  \E i \in DOMAIN cls.header :
    /\ Contains(cls.header[i].k, SdxlName)
    /\ ShapeLast(cls.header[i].v) = dim
C35_ShapeQualified ==
  cls.pc = "detected" =>
    /\ (cls.version = "sdxl_base_v0.9" /\ "sdxl" \notin Hint) => HasSdxlTensor(2048)
    /\ (/\ \E dim \in {0, 1280} : HasSdxlTensor(dim)
        /\ ~HasSdxlTensor(2048)
        /\ ByHint = None /\ ByLandmark = None /\ ByScan = None
        /\ ByZImage = None /\ ByQwen = None)
         => cls.version = None
C35_Witness ==
  /\ cls.pc = "detected"
  /\ HasSdxlTensor(1280)
  /\ Len(cls.header) = 1
  /\ cls.version = None
C35_WitnessSdxl ==
  /\ cls.pc = "detected"
  /\ Hint = {}
  /\ HasSdxlTensor(2048)
  /\ cls.version = "sdxl_base_v0.9"

\* no two entries of the registry name the same output file, and no two
\* carry the same source content hash in their provider sub-record
SourceHash(entry) ==
  IF "sha256" \in DOMAIN entry.civitai THEN entry.civitai["sha256"] ELSE <<>>
NoDuplicates(ents) ==
  \A j, m \in DOMAIN ents :
    j # m =>
      /\ ents[j].file # ents[m].file
      /\ SourceHash(ents[j]) # <<>> => SourceHash(ents[j]) # SourceHash(ents[m])
\* the registry holds an entry for the file at p: its output file, or the
\* hash of the content the file had before the first run
Registered(ents, p) ==
  \E j \in DOMAIN ents :
    \/ ents[j].file = OutPath(p)
    \/ SourceHash(ents[j]) = sha256_file(orig[p])

\* C36: over every sequence of process_file calls that starts from a
\* registry without duplicates, the registry stays without duplicates (no
\* two entries with the same output file name, no two with the same source
\* content hash), and a call on a source file that is already registered
\* appends nothing.
C36_NoDuplicates ==
  [][/\ NoDuplicates(entries) => NoDuplicates(entries')
     /\ \A i \in Inst :
          (entries' # entries /\ proc[i].pc # "idle") => ~Registered(entries, proc[i].path)]_vars
C36_Witness ==
  \E i \in Inst :
    /\ proc[i].pc = "return"
    /\ proc[i].ret = "False"
    /\ "preflight" \in Range(proc[i].log)
    /\ ~cfg.dry_run
    /\ Len(entries) = 1
    /\ entries[1].file = OutPath(proc[i].path)
    /\ SourceHash(entries[1]) = sha256_file(orig[proc[i].path])
    /\ BytesAt(proc[i].path) # orig[proc[i].path]

\* C37: in every state, the states a crash leaves included, a file whose
\* fix-state tag is 1, 2 or 3 carries the content-hash tag.
C37_FixedHasHash ==
  \A p \in Inputs : FixTagAt(p) \in Fixed => get_sha256_xattr(XattrAt(p)) # <<>>
C37_Witness ==
  /\ crashed
  /\ nReplace[SRC] = 1
  /\ FixTagAt(SRC) \in Fixed
  /\ get_sha256_xattr(XattrAt(SRC)) = sha256_file(orig[SRC])
C37_CrashBetween ==
  /\ crashed
  /\ nReplace[SRC] = 1
  /\ FixTagAt(SRC) = "unset"
  /\ get_sha256_xattr(XattrAt(SRC)) = sha256_file(orig[SRC])
  /\ \A i \in Inst : proc[i].pc = "idle"

\* C38: whenever no run is under way (every call has returned, raised or
\* died), a scan of the input directory yields only original input files.
C38_ScanOnlyInputs ==
  (\A i \in Inst : proc[i].pc = "idle") =>
    collect_safetensors \subseteq {p \in DOMAIN orig : orig[p] # <<>>}

====
